---- MODULE Spec2Model ----
(***************************************************************************)
(* Rigid-body integrator and circular collision system of mars-x           *)
(* (mars_x/cython_modules: physics / rigidbody and collision).             *)
(*                                                                         *)
(* Numbers.  The code computes on C doubles.  The model computes the same  *)
(* expressions, in the same order, over exact rationals <<n, d>> (d > 0,   *)
(* lowest terms), so the decimal literals of the code (0.999, 0.0001, 0.1) *)
(* are the fractions they denote.  The number domain is bounded: an        *)
(* operation that needs an integer product above MaxProd, and the root of  *)
(* a fraction that has no rational root, yield NaR, which every later      *)
(* operation hands on and every comparison answers FALSE (as a NaN does);  *)
(* comparisons of numbers are exact.                                       *)
(* A call that produces NaR lies outside the domain and is not explored.   *)
(* The rotation, the only value that meets M_PI, is kept as a double,      *)
(* bit for bit, and its operations round as the doubles of the code do.    *)
(***************************************************************************)
EXTENDS Integers, Sequences, FiniteSets, TLC

\* Number of core calls explored in one behaviour.
MaxSteps == 2

\* Largest integer product the arithmetic forms.
MaxProd == 1000000000

--------------------------------------------------------------------------
\* Exact rational arithmetic (the double expressions of the code).

Abs(n) == IF n < 0 THEN -n ELSE n

RECURSIVE GCD(_, _)
GCD(a, b) == IF b = 0 THEN a ELSE GCD(b, a % b)

\* n/d in lowest terms with a positive denominator (d # 0).
Norm(n, d) ==
    LET g == GCD(Abs(n), Abs(d))
    IN  IF d < 0 THEN <<(-n) \div g, (-d) \div g>> ELSE <<n \div g, d \div g>>

NaR == <<0, 0>>
IsNum(a) == a[2] # 0
\* |p * q| <= MaxProd, decided without forming the product.
Small(p, q) == q = 0 \/ Abs(p) <= MaxProd \div Abs(q)

I(n) == <<n, 1>>
Zero == I(0)
One == I(1)
Two == I(2)

RNeg(a) == <<-a[1], a[2]>>

RAdd(a, b) ==
    IF ~(IsNum(a) /\ IsNum(b)) THEN NaR
    ELSE LET g == GCD(a[2], b[2])
             ad == a[2] \div g
             bd == b[2] \div g
         IN  IF Small(a[1], bd) /\ Small(b[1], ad) /\ Small(ad, b[2])
             THEN Norm(a[1] * bd + b[1] * ad, ad * b[2])
             ELSE NaR

RSub(a, b) == RAdd(a, RNeg(b))

RMul(a, b) ==
    IF ~(IsNum(a) /\ IsNum(b)) THEN NaR
    ELSE LET g1 == GCD(Abs(a[1]), b[2])
             g2 == GCD(Abs(b[1]), a[2])
             n1 == a[1] \div g1
             n2 == b[1] \div g2
             d1 == a[2] \div g2
             d2 == b[2] \div g1
         IN  IF Small(n1, n2) /\ Small(d1, d2) THEN <<n1 * n2, d1 * d2>>
             ELSE NaR

\* a / b; the code divides by nothing that is zero.
RDiv(a, b) ==
    IF ~IsNum(b) \/ b[1] = 0 THEN NaR
    ELSE RMul(a, IF b[1] < 0 THEN <<-b[2], -b[1]>> ELSE <<b[2], b[1]>>)

\* The sign (-1, 0, 1) of n1/d1 - n2/d2 for d1, d2 > 0, by whole parts and
\* then the reciprocals of the remainders: no product is formed.
RECURSIVE Cmp(_, _, _, _)
Cmp(n1, d1, n2, d2) ==
    LET q1 == n1 \div d1
        q2 == n2 \div d2
        r1 == n1 % d1
        r2 == n2 % d2
    IN  IF q1 # q2 THEN (IF q1 < q2 THEN -1 ELSE 1)
        ELSE IF r1 = 0 \/ r2 = 0
             THEN (IF r1 = r2 THEN 0 ELSE IF r1 = 0 THEN -1 ELSE 1)
        ELSE Cmp(d2, r2, d1, r1)

RLt(a, b) == IsNum(a) /\ IsNum(b) /\ Cmp(a[1], a[2], b[1], b[2]) < 0
RLe(a, b) == IsNum(a) /\ IsNum(b) /\ Cmp(a[1], a[2], b[1], b[2]) <= 0
RGt(a, b) == RLt(b, a)
RGe(a, b) == RLe(b, a)

\* Largest r in lo..hi with r*r <= n (lo*lo <= n).
RECURSIVE RootSearch(_, _, _)
RootSearch(n, lo, hi) ==
    IF lo >= hi THEN lo
    ELSE LET mid == (lo + hi + 1) \div 2
         IN  IF mid * mid <= n THEN RootSearch(n, mid, hi)
             ELSE RootSearch(n, lo, mid - 1)

IRoot(n) == RootSearch(n, 0, IF n < 46340 THEN n ELSE 46340)
IsSquare(n) == IRoot(n) * IRoot(n) = n

\* libc sqrt, on the rationals >= 0 whose root is rational.
HasRoot(a) == IsNum(a) /\ a[1] >= 0 /\ IsSquare(a[1]) /\ IsSquare(a[2])
sqrt(a) == IF HasRoot(a) THEN <<IRoot(a[1]), IRoot(a[2])>> ELSE NaR

--------------------------------------------------------------------------
\* Program constants (decimal literals of the code, as fractions).

Drag == <<999, 1000>>          \* entity.vx *= 0.999
DegenerateSq == <<1, 10000>>   \* if distance_sq < 0.0001
Nudge == <<1, 10>>             \* entity1.x -= 0.1 ; entity2.x += 0.1

--------------------------------------------------------------------------
\* The rotation is compared with 2*M_PI, which is no fraction, so it is kept
\* as the double the code holds: sign s, exponent e and the 53 bits of the
\* significand in three limbs m = <<m1, m2, m3>> (5, 24 and 24 bits), for the
\* value s * (m1 * 2^48 + m2 * 2^24 + m3) * 2^(e - 52).  Zero has all limbs
\* 0.  The torques stay far from the largest and the smallest double, so
\* that no infinity and no subnormal arises; the sign of a zero is not kept.

\* Bits of a double's significand, and of one limb.
Precision == 53
LimbBits == 24
Base == 2 ^ LimbBits

Dbl(s, e, m) == [s |-> s, e |-> e, m |-> m]
DZero == Dbl(1, 0, <<0, 0, 0>>)
IsDZero(a) == a.m[1] = 0
\* A double outside the domain of the model.
NaD == Dbl(0, 0, <<0, 0, 0>>)
IsD(a) == a.s # 0
DNeg(a) == IF IsDZero(a) THEN a ELSE Dbl(-a.s, a.e, a.m)
\* a * 2^k.
DScale(a, k) == IF IsDZero(a) THEN a ELSE Dbl(a.s, a.e + k, a.m)

\* M_PI of math.h: 0x1.921fb54442d18p+1 (limbs 0x19, 0x21fb54, 0x442d18).
M_PI == Dbl(1, 1, <<25, 2227028, 4467992>>)
\* 2*M_PI
TwoPi == DScale(M_PI, 1)

\* A natural number as its limbs, the least significant first.
Limb(N, i) == IF i >= 1 /\ i <= Len(N) THEN N[i] ELSE 0

\* The n low limbs of N * 2^sh.
ShiftLeft(N, sh, n) ==
    LET q == sh \div LimbBits
        r == sh % LimbBits
    IN  [i \in 1..n |->
            (Limb(N, i - q) % 2 ^ (LimbBits - r)) * 2 ^ r
            + Limb(N, i - q - 1) \div 2 ^ (LimbBits - r)]

\* The n low limbs of N \div 2^sh.
ShiftRight(N, sh, n) ==
    LET q == sh \div LimbBits
        r == sh % LimbBits
    IN  [i \in 1..n |->
            Limb(N, i + q) \div 2 ^ r
            + (Limb(N, i + q + 1) % 2 ^ r) * 2 ^ (LimbBits - r)]

\* A + B + carry from limb i on (A and B of one length): Len(A) + 1 limbs.
RECURSIVE AddLimbs(_, _, _, _)
AddLimbs(A, B, i, carry) ==
    IF i > Len(A) THEN <<carry>>
    ELSE LET t == A[i] + B[i] + carry
         IN  <<t % Base>> \o AddLimbs(A, B, i + 1, t \div Base)

\* A - B - borrow from limb i on, for A >= B.
RECURSIVE SubLimbs(_, _, _, _)
SubLimbs(A, B, i, borrow) ==
    IF i > Len(A) THEN <<>>
    ELSE LET t == A[i] - B[i] - borrow
         IN  <<t % Base>> \o SubLimbs(A, B, i + 1, IF t < 0 THEN 1 ELSE 0)

\* -1, 0, 1 as A is below, equal to, above B, from limb i down.
RECURSIVE CmpLimbs(_, _, _)
CmpLimbs(A, B, i) ==
    IF i = 0 THEN 0
    ELSE IF A[i] # B[i] THEN (IF A[i] < B[i] THEN -1 ELSE 1)
    ELSE CmpLimbs(A, B, i - 1)

\* The number of bits of n.
RECURSIVE BitLen(_)
BitLen(n) == IF n = 0 THEN 0 ELSE 1 + BitLen(n \div 2)

\* The highest limb of N that is not 0 (0 when N = 0), from limb i down.
RECURSIVE TopLimb(_, _)
TopLimb(N, i) == IF i = 0 \/ N[i] # 0 THEN i ELSE TopLimb(N, i - 1)

\* The double nearest to s * N * 2^low; a tie goes to the even significand
\* (the rounding of every double operation).
RoundLimbs(s, N, low) ==
    LET h == TopLimb(N, Len(N))
        len == LimbBits * (h - 1) + BitLen(N[h])
        drop == len - Precision
        p == drop - 1
        half == (Limb(N, p \div LimbBits + 1) \div 2 ^ (p % LimbBits)) % 2
        sticky == \/ Limb(N, p \div LimbBits + 1) % 2 ^ (p % LimbBits) # 0
                  \/ \E i \in 1..(p \div LimbBits) : N[i] # 0
        M == IF drop <= 0 THEN ShiftLeft(N, -drop, 3)
             ELSE ShiftRight(N, drop, 3)
        up == drop > 0 /\ half = 1 /\ (sticky \/ M[1] % 2 = 1)
        inc == AddLimbs(M, <<0, 0, 0>>, 1, 1)
    IN  IF h = 0 THEN DZero
        ELSE IF ~up THEN Dbl(s, low + len - 1, <<M[3], M[2], M[1]>>)
        ELSE IF inc[3] = 2 ^ (Precision - 2 * LimbBits)
             THEN Dbl(s, low + len, <<inc[3] \div 2, 0, 0>>)
        ELSE Dbl(s, low + len - 1, <<inc[3], inc[2], inc[1]>>)

\* |a| / 2^low in n limbs, for low at or below the place of a's last bit.
Limbs(a, low, n) ==
    ShiftLeft(<<a.m[3], a.m[2], a.m[1]>>, a.e - (Precision - 1) - low, n)

\* The double of a whole number (below 2^24 in size).
DInt(k) == RoundLimbs(IF k < 0 THEN -1 ELSE 1, <<Abs(k)>>, 0)

\* double + double
DAdd(a, b) ==
    IF ~(IsD(a) /\ IsD(b)) THEN NaD
    ELSE IF IsDZero(a) THEN b
    ELSE IF IsDZero(b) THEN a
    ELSE LET top == IF a.e > b.e THEN a.e ELSE b.e
             low == (IF a.e < b.e THEN a.e ELSE b.e) - (Precision - 1)
             n == (top - low) \div LimbBits + 1
             A == Limbs(a, low, n)
             B == Limbs(b, low, n)
             c == CmpLimbs(A, B, n)
         IN  IF a.s = b.s THEN RoundLimbs(a.s, AddLimbs(A, B, 1, 0), low)
             ELSE IF c = 0 THEN DZero
             ELSE IF c > 0 THEN RoundLimbs(a.s, SubLimbs(A, B, 1, 0), low)
             ELSE RoundLimbs(b.s, SubLimbs(B, A, 1, 0), low)

\* double - double
DSub(a, b) == DAdd(a, DNeg(b))

\* The sign (-1, 0, 1) of a - b.
DCmp(a, b) ==
    LET top == IF a.e > b.e THEN a.e ELSE b.e
        low == (IF a.e < b.e THEN a.e ELSE b.e) - (Precision - 1)
        n == (top - low) \div LimbBits + 1
    IN  IF IsDZero(a) /\ IsDZero(b) THEN 0
        ELSE IF IsDZero(a) THEN -b.s
        ELSE IF IsDZero(b) THEN a.s
        ELSE IF a.s # b.s THEN a.s
        ELSE a.s * CmpLimbs(Limbs(a, low, n), Limbs(b, low, n), n)

DLt(a, b) == IsD(a) /\ IsD(b) /\ DCmp(a, b) < 0
DGe(a, b) == IsD(a) /\ IsD(b) /\ DCmp(a, b) >= 0

IsPow2(k) == k >= 1 /\ 2 ^ (BitLen(k) - 1) = k

\* double / mass, for the masses +-2^k, by which every double divides
\* without rounding.
DDivMass(a, mass) ==
    IF IsD(a) /\ IsNum(mass) /\ IsPow2(Abs(mass[1])) /\ IsPow2(mass[2])
    THEN LET q == DScale(a, BitLen(mass[2]) - BitLen(Abs(mass[1])))
         IN  IF mass[1] < 0 THEN DNeg(q) ELSE q
    ELSE NaD

--------------------------------------------------------------------------
\* RigidBodyIntegrator.

\* Entity.__init__
NewEntity ==
    [x |-> Zero, y |-> Zero, vx |-> Zero, vy |-> Zero, mass |-> One,
     rotation |-> DZero, active |-> TRUE, radius |-> Zero]

\* update_positions: the damping is applied before the position is advanced.
UpdateEntityDragFirst(e, dt) ==
    IF e.active
    THEN [e EXCEPT !.x = RAdd(e.x, RMul(RMul(e.vx, Drag), dt)),
                   !.y = RAdd(e.y, RMul(RMul(e.vy, Drag), dt)),
                   !.vx = RMul(e.vx, Drag),
                   !.vy = RMul(e.vy, Drag)]
    ELSE e

\* update_positions: the active flag is not consulted.
UpdateEntityAlways(e, dt) ==
    [e EXCEPT !.x = RAdd(e.x, RMul(e.vx, dt)),
              !.y = RAdd(e.y, RMul(e.vy, dt)),
              !.vx = RMul(e.vx, Drag),
              !.vy = RMul(e.vy, Drag)]

\* The body of the loop of update_positions.
UpdateEntity(e, dt) ==
    IF e.active
    THEN [e EXCEPT !.x = RAdd(e.x, RMul(e.vx, dt)),
                   !.y = RAdd(e.y, RMul(e.vy, dt)),
                   !.vx = RMul(e.vx, Drag),
                   !.vy = RMul(e.vy, Drag)]
    ELSE e

update_positions(ents, dt) ==
    [i \in 1..Len(ents) |-> UpdateEntity(ents[i], dt)]

\* apply_force that moves the entity as well.
apply_forceMoves(e, fx, fy) ==
    IF e.mass = Zero THEN e
    ELSE [e EXCEPT !.vx = RAdd(e.vx, RDiv(fx, e.mass)),
                   !.vy = RAdd(e.vy, RDiv(fy, e.mass)),
                   !.x = RAdd(e.x, RDiv(fx, e.mass)),
                   !.y = RAdd(e.y, RDiv(fy, e.mass))]

apply_force(e, fx, fy) ==
    IF e.mass = Zero THEN e
    ELSE [e EXCEPT !.vx = RAdd(e.vx, RDiv(fx, e.mass)),
                   !.vy = RAdd(e.vy, RDiv(fy, e.mass))]

\* while entity.rotation >= 2*M_PI: entity.rotation -= 2*M_PI
RECURSIVE WrapDown(_)
WrapDown(r) == IF DGe(r, TwoPi) THEN WrapDown(DSub(r, TwoPi)) ELSE r

\* while entity.rotation < 0.0: entity.rotation += 2*M_PI
RECURSIVE WrapUp(_)
WrapUp(r) == IF DLt(r, DZero) THEN WrapUp(DAdd(r, TwoPi)) ELSE r

apply_torque(e, torque) ==
    IF e.mass = Zero THEN e
    ELSE [e EXCEPT !.rotation =
              WrapUp(WrapDown(DAdd(e.rotation, DDivMass(torque, e.mass))))]

--------------------------------------------------------------------------
\* CollisionSystem.

\* check_collision with "<" for "<=".
check_collisionStrict(x1, y1, radius1, x2, y2, radius2) ==
    LET dx == RSub(x2, x1)
        dy == RSub(y2, y1)
        distance_sq == RAdd(RMul(dx, dx), RMul(dy, dy))
        combined_radius == RAdd(radius1, radius2)
    IN  RLt(distance_sq, RMul(combined_radius, combined_radius))

check_collision(x1, y1, radius1, x2, y2, radius2) ==
    LET dx == RSub(x2, x1)
        dy == RSub(y2, y1)
        distance_sq == RAdd(RMul(dx, dx), RMul(dy, dy))
        combined_radius == RAdd(radius1, radius2)
    IN  RLe(distance_sq, RMul(combined_radius, combined_radius))

\* The narrow test of resolve_collisions with dy left out of the distance.
CollidingNoDy(entity1, entity2) ==
    LET dx == RSub(entity2.x, entity1.x)
        distance_sq == RMul(dx, dx)
        combined_radius == RAdd(entity1.radius, entity2.radius)
    IN  ~RGt(distance_sq, RMul(combined_radius, combined_radius))

\* The narrow test of resolve_collisions: not "distance_sq > combined^2".
Colliding(entity1, entity2) ==
    LET dx == RSub(entity2.x, entity1.x)
        dy == RSub(entity2.y, entity1.y)
        distance_sq == RAdd(RMul(dx, dx), RMul(dy, dy))
        combined_radius == RAdd(entity1.radius, entity2.radius)
    IN  ~RGt(distance_sq, RMul(combined_radius, combined_radius))

\* The squared centre distance _handle_collision starts from.
DistanceSq(entity1, entity2) ==
    LET dx == RSub(entity2.x, entity1.x)
        dy == RSub(entity2.y, entity1.y)
    IN  RAdd(RMul(dx, dx), RMul(dy, dy))

\* The result of one call: both entities as the call leaves them.
Pair(e1, e2) == [e1 |-> e1, e2 |-> e2]

\* The degenerate branch with both entities pushed the same way.
PushApartSameWay(entity1, entity2) ==
    Pair([entity1 EXCEPT !.x = RAdd(entity1.x, Nudge)],
         [entity2 EXCEPT !.x = RAdd(entity2.x, Nudge)])

\* The degenerate branch.
PushApart(entity1, entity2) ==
    Pair([entity1 EXCEPT !.x = RSub(entity1.x, Nudge)],
         [entity2 EXCEPT !.x = RAdd(entity2.x, Nudge)])

\* Both masses positive, both entities moved by entity1_ratio.
BothMassiveOneRatio(entity1, entity2, nx, ny, overlap, response_coef) ==
    LET total_mass == RAdd(entity1.mass, entity2.mass)
        entity1_ratio == RDiv(entity2.mass, total_mass)
        p1 == [entity1 EXCEPT
                 !.x = RSub(entity1.x, RMul(RMul(nx, overlap), entity1_ratio)),
                 !.y = RSub(entity1.y, RMul(RMul(ny, overlap), entity1_ratio))]
        p2 == [entity2 EXCEPT
                 !.x = RAdd(entity2.x, RMul(RMul(nx, overlap), entity1_ratio)),
                 !.y = RAdd(entity2.y, RMul(RMul(ny, overlap), entity1_ratio))]
        rvx == RSub(entity2.vx, entity1.vx)
        rvy == RSub(entity2.vy, entity1.vy)
        vel_along_normal == RAdd(RMul(rvx, nx), RMul(rvy, ny))
        impulse_scalar ==
            RDiv(RMul(RNeg(RAdd(One, response_coef)), vel_along_normal),
                 RAdd(RDiv(One, entity1.mass), RDiv(One, entity2.mass)))
        impulse_x == RMul(impulse_scalar, nx)
        impulse_y == RMul(impulse_scalar, ny)
    IN  IF RGt(vel_along_normal, Zero) THEN Pair(p1, p2)
        ELSE Pair([p1 EXCEPT
                     !.vx = RSub(p1.vx, RDiv(impulse_x, entity1.mass)),
                     !.vy = RSub(p1.vy, RDiv(impulse_y, entity1.mass))],
                  [p2 EXCEPT
                     !.vx = RAdd(p2.vx, RDiv(impulse_x, entity2.mass)),
                     !.vy = RAdd(p2.vy, RDiv(impulse_y, entity2.mass))])

\* Both masses positive, the impulse scaled by response_coef alone.
BothMassiveNoRebound(entity1, entity2, nx, ny, overlap, response_coef) ==
    LET total_mass == RAdd(entity1.mass, entity2.mass)
        entity1_ratio == RDiv(entity2.mass, total_mass)
        entity2_ratio == RDiv(entity1.mass, total_mass)
        p1 == [entity1 EXCEPT
                 !.x = RSub(entity1.x, RMul(RMul(nx, overlap), entity1_ratio)),
                 !.y = RSub(entity1.y, RMul(RMul(ny, overlap), entity1_ratio))]
        p2 == [entity2 EXCEPT
                 !.x = RAdd(entity2.x, RMul(RMul(nx, overlap), entity2_ratio)),
                 !.y = RAdd(entity2.y, RMul(RMul(ny, overlap), entity2_ratio))]
        rvx == RSub(entity2.vx, entity1.vx)
        rvy == RSub(entity2.vy, entity1.vy)
        vel_along_normal == RAdd(RMul(rvx, nx), RMul(rvy, ny))
        impulse_scalar ==
            RDiv(RMul(RNeg(response_coef), vel_along_normal),
                 RAdd(RDiv(One, entity1.mass), RDiv(One, entity2.mass)))
        impulse_x == RMul(impulse_scalar, nx)
        impulse_y == RMul(impulse_scalar, ny)
    IN  IF RGt(vel_along_normal, Zero) THEN Pair(p1, p2)
        ELSE Pair([p1 EXCEPT
                     !.vx = RSub(p1.vx, RDiv(impulse_x, entity1.mass)),
                     !.vy = RSub(p1.vy, RDiv(impulse_y, entity1.mass))],
                  [p2 EXCEPT
                     !.vx = RAdd(p2.vx, RDiv(impulse_x, entity2.mass)),
                     !.vy = RAdd(p2.vy, RDiv(impulse_y, entity2.mass))])

\* Both masses positive, each entity moved by its own share of the mass.
BothMassiveOwnRatio(entity1, entity2, nx, ny, overlap, response_coef) ==
    LET total_mass == RAdd(entity1.mass, entity2.mass)
        entity1_ratio == RDiv(entity1.mass, total_mass)
        entity2_ratio == RDiv(entity2.mass, total_mass)
        p1 == [entity1 EXCEPT
                 !.x = RSub(entity1.x, RMul(RMul(nx, overlap), entity1_ratio)),
                 !.y = RSub(entity1.y, RMul(RMul(ny, overlap), entity1_ratio))]
        p2 == [entity2 EXCEPT
                 !.x = RAdd(entity2.x, RMul(RMul(nx, overlap), entity2_ratio)),
                 !.y = RAdd(entity2.y, RMul(RMul(ny, overlap), entity2_ratio))]
        rvx == RSub(entity2.vx, entity1.vx)
        rvy == RSub(entity2.vy, entity1.vy)
        vel_along_normal == RAdd(RMul(rvx, nx), RMul(rvy, ny))
        impulse_scalar ==
            RDiv(RMul(RNeg(RAdd(One, response_coef)), vel_along_normal),
                 RAdd(RDiv(One, entity1.mass), RDiv(One, entity2.mass)))
        impulse_x == RMul(impulse_scalar, nx)
        impulse_y == RMul(impulse_scalar, ny)
    IN  IF RGt(vel_along_normal, Zero) THEN Pair(p1, p2)
        ELSE Pair([p1 EXCEPT
                     !.vx = RSub(p1.vx, RDiv(impulse_x, entity1.mass)),
                     !.vy = RSub(p1.vy, RDiv(impulse_y, entity1.mass))],
                  [p2 EXCEPT
                     !.vx = RAdd(p2.vx, RDiv(impulse_x, entity2.mass)),
                     !.vy = RAdd(p2.vy, RDiv(impulse_y, entity2.mass))])

\* Both masses positive, the impulse applied to a separating pair as well.
BothMassiveAlwaysImpulse(entity1, entity2, nx, ny, overlap, response_coef) ==
    LET total_mass == RAdd(entity1.mass, entity2.mass)
        entity1_ratio == RDiv(entity2.mass, total_mass)
        entity2_ratio == RDiv(entity1.mass, total_mass)
        p1 == [entity1 EXCEPT
                 !.x = RSub(entity1.x, RMul(RMul(nx, overlap), entity1_ratio)),
                 !.y = RSub(entity1.y, RMul(RMul(ny, overlap), entity1_ratio))]
        p2 == [entity2 EXCEPT
                 !.x = RAdd(entity2.x, RMul(RMul(nx, overlap), entity2_ratio)),
                 !.y = RAdd(entity2.y, RMul(RMul(ny, overlap), entity2_ratio))]
        rvx == RSub(entity2.vx, entity1.vx)
        rvy == RSub(entity2.vy, entity1.vy)
        vel_along_normal == RAdd(RMul(rvx, nx), RMul(rvy, ny))
        impulse_scalar ==
            RDiv(RMul(RNeg(RAdd(One, response_coef)), vel_along_normal),
                 RAdd(RDiv(One, entity1.mass), RDiv(One, entity2.mass)))
        impulse_x == RMul(impulse_scalar, nx)
        impulse_y == RMul(impulse_scalar, ny)
    IN  Pair([p1 EXCEPT
                !.vx = RSub(p1.vx, RDiv(impulse_x, entity1.mass)),
                !.vy = RSub(p1.vy, RDiv(impulse_y, entity1.mass))],
             [p2 EXCEPT
                !.vx = RAdd(p2.vx, RDiv(impulse_x, entity2.mass)),
                !.vy = RAdd(p2.vy, RDiv(impulse_y, entity2.mass))])

\* Both masses positive, the impulse divided by entity1.mass for both.
BothMassiveOneMass(entity1, entity2, nx, ny, overlap, response_coef) ==
    LET total_mass == RAdd(entity1.mass, entity2.mass)
        entity1_ratio == RDiv(entity2.mass, total_mass)
        entity2_ratio == RDiv(entity1.mass, total_mass)
        p1 == [entity1 EXCEPT
                 !.x = RSub(entity1.x, RMul(RMul(nx, overlap), entity1_ratio)),
                 !.y = RSub(entity1.y, RMul(RMul(ny, overlap), entity1_ratio))]
        p2 == [entity2 EXCEPT
                 !.x = RAdd(entity2.x, RMul(RMul(nx, overlap), entity2_ratio)),
                 !.y = RAdd(entity2.y, RMul(RMul(ny, overlap), entity2_ratio))]
        rvx == RSub(entity2.vx, entity1.vx)
        rvy == RSub(entity2.vy, entity1.vy)
        vel_along_normal == RAdd(RMul(rvx, nx), RMul(rvy, ny))
        impulse_scalar ==
            RDiv(RMul(RNeg(RAdd(One, response_coef)), vel_along_normal),
                 RAdd(RDiv(One, entity1.mass), RDiv(One, entity2.mass)))
        impulse_x == RMul(impulse_scalar, nx)
        impulse_y == RMul(impulse_scalar, ny)
    IN  IF RGt(vel_along_normal, Zero) THEN Pair(p1, p2)
        ELSE Pair([p1 EXCEPT
                     !.vx = RSub(p1.vx, RDiv(impulse_x, entity1.mass)),
                     !.vy = RSub(p1.vy, RDiv(impulse_y, entity1.mass))],
                  [p2 EXCEPT
                     !.vx = RAdd(p2.vx, RDiv(impulse_x, entity1.mass)),
                     !.vy = RAdd(p2.vy, RDiv(impulse_y, entity1.mass))])

\* Both masses positive: positional correction, then the impulse.
BothMassive(entity1, entity2, nx, ny, overlap, response_coef) ==
    LET total_mass == RAdd(entity1.mass, entity2.mass)
        entity1_ratio == RDiv(entity2.mass, total_mass)
        entity2_ratio == RDiv(entity1.mass, total_mass)
        p1 == [entity1 EXCEPT
                 !.x = RSub(entity1.x, RMul(RMul(nx, overlap), entity1_ratio)),
                 !.y = RSub(entity1.y, RMul(RMul(ny, overlap), entity1_ratio))]
        p2 == [entity2 EXCEPT
                 !.x = RAdd(entity2.x, RMul(RMul(nx, overlap), entity2_ratio)),
                 !.y = RAdd(entity2.y, RMul(RMul(ny, overlap), entity2_ratio))]
        rvx == RSub(entity2.vx, entity1.vx)
        rvy == RSub(entity2.vy, entity1.vy)
        vel_along_normal == RAdd(RMul(rvx, nx), RMul(rvy, ny))
        impulse_scalar ==
            RDiv(RMul(RNeg(RAdd(One, response_coef)), vel_along_normal),
                 RAdd(RDiv(One, entity1.mass), RDiv(One, entity2.mass)))
        impulse_x == RMul(impulse_scalar, nx)
        impulse_y == RMul(impulse_scalar, ny)
    IN  IF RGt(vel_along_normal, Zero) THEN Pair(p1, p2)
        ELSE Pair([p1 EXCEPT
                     !.vx = RSub(p1.vx, RDiv(impulse_x, entity1.mass)),
                     !.vy = RSub(p1.vy, RDiv(impulse_y, entity1.mass))],
                  [p2 EXCEPT
                     !.vx = RAdd(p2.vx, RDiv(impulse_x, entity2.mass)),
                     !.vy = RAdd(p2.vy, RDiv(impulse_y, entity2.mass))])

\* Only entity1 has mass, the overlap shared with entity2.
OnlyFirstMassiveShared(entity1, entity2, nx, ny, overlap, response_coef) ==
    LET dot == RAdd(RMul(entity1.vx, nx), RMul(entity1.vy, ny))
        half == RDiv(overlap, Two)
    IN  Pair([entity1 EXCEPT
                !.x = RSub(entity1.x, RMul(nx, half)),
                !.y = RSub(entity1.y, RMul(ny, half)),
                !.vx = RMul(response_coef,
                            RSub(entity1.vx, RMul(RMul(Two, dot), nx))),
                !.vy = RMul(response_coef,
                            RSub(entity1.vy, RMul(RMul(Two, dot), ny)))],
             [entity2 EXCEPT
                !.x = RAdd(entity2.x, RMul(nx, half)),
                !.y = RAdd(entity2.y, RMul(ny, half))])

\* Only entity1 has mass: it is pushed back and reflected.
OnlyFirstMassive(entity1, entity2, nx, ny, overlap, response_coef) ==
    LET dot == RAdd(RMul(entity1.vx, nx), RMul(entity1.vy, ny))
    IN  Pair([entity1 EXCEPT
                !.x = RSub(entity1.x, RMul(nx, overlap)),
                !.y = RSub(entity1.y, RMul(ny, overlap)),
                !.vx = RMul(response_coef,
                            RSub(entity1.vx, RMul(RMul(Two, dot), nx))),
                !.vy = RMul(response_coef,
                            RSub(entity1.vy, RMul(RMul(Two, dot), ny)))],
             entity2)

\* Only entity2 has mass, the normal component removed instead of reversed.
OnlySecondMassiveNoDouble(entity1, entity2, nx, ny, overlap, response_coef) ==
    LET dot == RAdd(RMul(entity2.vx, nx), RMul(entity2.vy, ny))
    IN  Pair(entity1,
             [entity2 EXCEPT
                !.x = RAdd(entity2.x, RMul(nx, overlap)),
                !.y = RAdd(entity2.y, RMul(ny, overlap)),
                !.vx = RMul(response_coef, RSub(entity2.vx, RMul(dot, nx))),
                !.vy = RMul(response_coef, RSub(entity2.vy, RMul(dot, ny)))])

\* Only entity2 has mass.
OnlySecondMassive(entity1, entity2, nx, ny, overlap, response_coef) ==
    LET dot == RAdd(RMul(entity2.vx, nx), RMul(entity2.vy, ny))
    IN  Pair(entity1,
             [entity2 EXCEPT
                !.x = RAdd(entity2.x, RMul(nx, overlap)),
                !.y = RAdd(entity2.y, RMul(ny, overlap)),
                !.vx = RMul(response_coef,
                            RSub(entity2.vx, RMul(RMul(Two, dot), nx))),
                !.vy = RMul(response_coef,
                            RSub(entity2.vy, RMul(RMul(Two, dot), ny)))])

\* _handle_collision with the last branch taken whatever entity2.mass is.
handle_collisionElse(entity1, entity2, response_coef) ==
    LET dx == RSub(entity2.x, entity1.x)
        dy == RSub(entity2.y, entity1.y)
        distance_sq == DistanceSq(entity1, entity2)
        distance == sqrt(distance_sq)
        overlap == RSub(RAdd(entity1.radius, entity2.radius), distance)
        nx == RDiv(dx, distance)
        ny == RDiv(dy, distance)
    IN  IF RLt(distance_sq, DegenerateSq) THEN PushApart(entity1, entity2)
        ELSE IF RGt(entity1.mass, Zero) /\ RGt(entity2.mass, Zero)
             THEN BothMassive(entity1, entity2, nx, ny, overlap, response_coef)
        ELSE IF RGt(entity1.mass, Zero)
             THEN OnlyFirstMassive(entity1, entity2, nx, ny, overlap,
                                   response_coef)
        ELSE OnlySecondMassive(entity1, entity2, nx, ny, overlap,
                               response_coef)

\* _handle_collision(entity1, entity2, response_coef)
handle_collision(entity1, entity2, response_coef) ==
    LET dx == RSub(entity2.x, entity1.x)
        dy == RSub(entity2.y, entity1.y)
        distance_sq == DistanceSq(entity1, entity2)
        distance == sqrt(distance_sq)
        overlap == RSub(RAdd(entity1.radius, entity2.radius), distance)
        nx == RDiv(dx, distance)
        ny == RDiv(dy, distance)
    IN  IF RLt(distance_sq, DegenerateSq) THEN PushApart(entity1, entity2)
        ELSE IF RGt(entity1.mass, Zero) /\ RGt(entity2.mass, Zero)
             THEN BothMassive(entity1, entity2, nx, ny, overlap, response_coef)
        ELSE IF RGt(entity1.mass, Zero)
             THEN OnlyFirstMassive(entity1, entity2, nx, ny, overlap,
                                   response_coef)
        ELSE IF RGt(entity2.mass, Zero)
             THEN OnlySecondMassive(entity1, entity2, nx, ny, overlap,
                                    response_coef)
        ELSE Pair(entity1, entity2)

\* Every number of the entity is in the number domain.
NumEntity(e) ==
    /\ IsNum(e.x) /\ IsNum(e.y) /\ IsNum(e.vx) /\ IsNum(e.vy)
    /\ IsD(e.rotation)

\* What one pass has done so far: the list, the pairs that reached the narrow
\* test, the pairs handled (with both entities before and after), the pairs
\* the narrow test let go (with both entities as it saw them), and whether
\* the pass has stayed in the number domain.
Pass(ents, tested, handled, missed, ok) ==
    [ents |-> ents, tested |-> tested, handled |-> handled,
     missed |-> missed, ok |-> ok]

Missed(i, j, entity1, entity2) ==
    [i |-> i, j |-> j, b1 |-> entity1, b2 |-> entity2]

Handled(i, j, b1, b2, r, coef) ==
    [i |-> i, j |-> j, b1 |-> b1, b2 |-> b2, a1 |-> r.e1, a2 |-> r.e2,
     coef |-> coef]

\* for j in range(n) (every index, not only those after i).
FirstJFromStart(i) == 1

\* for j in range(i+1, n): the first j of the inner loop (indices from 1).
FirstJ(i) == i + 1

\* The inner loop without "if not entity2.active: continue".
PairStepAnyEntity2(st, i, j, response_coef) ==
    LET entity1 == st.ents[i]
        entity2 == st.ents[j]
        r == handle_collision(entity1, entity2, response_coef)
    IN  IF ~Colliding(entity1, entity2)
        THEN Pass(st.ents, Append(st.tested, <<i, j>>), st.handled,
                  Append(st.missed, Missed(i, j, entity1, entity2)), st.ok)
        ELSE Pass([[st.ents EXCEPT ![j] = r.e2] EXCEPT ![i] = r.e1],
                  Append(st.tested, <<i, j>>),
                  Append(st.handled,
                         Handled(i, j, entity1, entity2, r, response_coef)),
                  st.missed,
                  /\ st.ok /\ IsNum(DistanceSq(entity1, entity2))
                  /\ NumEntity(r.e1) /\ NumEntity(r.e2))

\* The inner loop with the response of entity1 not written back to the list.
PairStepKeepsEntity1(st, i, j, response_coef) ==
    LET entity1 == st.ents[i]
        entity2 == st.ents[j]
        r == handle_collision(entity1, entity2, response_coef)
    IN  IF ~entity2.active THEN st
        ELSE IF ~Colliding(entity1, entity2)
             THEN Pass(st.ents, Append(st.tested, <<i, j>>), st.handled,
                       Append(st.missed, Missed(i, j, entity1, entity2)),
                       st.ok)
        ELSE Pass([st.ents EXCEPT ![j] = r.e2],
                  Append(st.tested, <<i, j>>),
                  Append(st.handled,
                         Handled(i, j, entity1, entity2, r, response_coef)),
                  st.missed,
                  /\ st.ok /\ IsNum(DistanceSq(entity1, entity2))
                  /\ NumEntity(r.e1) /\ NumEntity(r.e2))

\* One iteration of the inner loop, for the pair (i, j).
PairStep(st, i, j, response_coef) ==
    LET entity1 == st.ents[i]
        entity2 == st.ents[j]
        r == handle_collision(entity1, entity2, response_coef)
    IN  IF ~entity2.active THEN st
        ELSE IF ~Colliding(entity1, entity2)
             THEN Pass(st.ents, Append(st.tested, <<i, j>>), st.handled,
                       Append(st.missed, Missed(i, j, entity1, entity2)),
                       st.ok)
        ELSE Pass([[st.ents EXCEPT ![j] = r.e2] EXCEPT ![i] = r.e1],
                  Append(st.tested, <<i, j>>),
                  Append(st.handled,
                         Handled(i, j, entity1, entity2, r, response_coef)),
                  st.missed,
                  /\ st.ok /\ IsNum(DistanceSq(entity1, entity2))
                  /\ NumEntity(r.e1) /\ NumEntity(r.e2))

RECURSIVE InnerLoop(_, _, _, _)
InnerLoop(st, i, j, response_coef) ==
    IF j > Len(st.ents) \/ ~st.ok THEN st
    ELSE InnerLoop(PairStep(st, i, j, response_coef), i, j + 1, response_coef)

RECURSIVE OuterLoop(_, _, _)
OuterLoop(st, i, response_coef) ==
    IF i > Len(st.ents) \/ ~st.ok THEN st
    ELSE IF ~st.ents[i].active THEN OuterLoop(st, i + 1, response_coef)
    ELSE OuterLoop(InnerLoop(st, i, FirstJ(i), response_coef), i + 1,
                   response_coef)

resolve_collisions(ents, response_coef) ==
    OuterLoop(Pass(ents, <<>>, <<>>, <<>>, TRUE), 1, response_coef)

--------------------------------------------------------------------------
\* Numbers of VectorMath, Matrix4 and Quaternion.  Their code compares with
\* 1e-10 and 1e-6, which no fraction <<n, d>> of the number domain reaches,
\* so a number here is a fraction r with 1 <= |r| < 10 and a power of ten:
\* <<r, k>> for r * 10^k, and <<Zero, 0>> for 0.  A sum whose fraction needs
\* an integer above MaxProd lies outside the domain (SNaN).

SNaN == <<NaR, 0>>
IsS(a) == IsNum(a[1])
SZero == <<Zero, 0>>
IsSZero(a) == a = SZero

RECURSIVE SNorm(_, _)
SNorm(r, k) ==
    IF ~IsNum(r) THEN SNaN
    ELSE IF r[1] = 0 THEN SZero
    ELSE IF Abs(r[1]) \div r[2] >= 10 THEN SNorm(RDiv(r, I(10)), k + 1)
    ELSE IF Abs(r[1]) < r[2] THEN SNorm(RMul(r, I(10)), k - 1)
    ELSE <<r, k>>

\* The number n/d * 10^k, and the whole number n.
Sci(n, d, k) == SNorm(Norm(n, d), k)
SI(n) == Sci(n, 1, 0)
SOne == SI(1)
STwo == SI(2)

SNeg(a) == <<RNeg(a[1]), a[2]>>
SAbs(a) == <<<<Abs(a[1][1]), a[1][2]>>, a[2]>>

SMul(a, b) == SNorm(RMul(a[1], b[1]), a[2] + b[2])
SDiv(a, b) == SNorm(RDiv(a[1], b[1]), a[2] - b[2])

\* r * 10^k, for k >= 0.
RECURSIVE Scale10(_, _)
Scale10(r, k) ==
    IF k = 0 \/ ~IsNum(r) THEN r ELSE Scale10(RMul(r, I(10)), k - 1)

SAdd(a, b) ==
    IF ~(IsS(a) /\ IsS(b)) THEN SNaN
    ELSE IF IsSZero(a) THEN b
    ELSE IF IsSZero(b) THEN a
    ELSE LET hi == IF a[2] >= b[2] THEN a ELSE b
             lo == IF a[2] >= b[2] THEN b ELSE a
         IN  SNorm(RAdd(Scale10(hi[1], hi[2] - lo[2]), lo[1]), lo[2])

SSub(a, b) == SAdd(a, SNeg(b))

Sign(n) == IF n < 0 THEN -1 ELSE IF n > 0 THEN 1 ELSE 0

\* The sign (-1, 0, 1) of a - b.
SCmp(a, b) ==
    LET sa == Sign(a[1][1])
        sb == Sign(b[1][1])
    IN  IF sa # sb THEN (IF sa < sb THEN -1 ELSE 1)
        ELSE IF sa = 0 THEN 0
        ELSE IF a[2] # b[2] THEN (IF a[2] < b[2] THEN -sa ELSE sa)
        ELSE Cmp(a[1][1], a[1][2], b[1][1], b[1][2])

SLt(a, b) == IsS(a) /\ IsS(b) /\ SCmp(a, b) < 0
SLe(a, b) == IsS(a) /\ IsS(b) /\ SCmp(a, b) <= 0
SGt(a, b) == SLt(b, a)
SGe(a, b) == SLe(b, a)

\* libc sqrt, on the numbers >= 0 whose root is in the domain.
Ssqrt(a) ==
    IF ~IsS(a) THEN SNaN
    ELSE IF a[2] % 2 = 0 THEN SNorm(sqrt(a[1]), a[2] \div 2)
    ELSE SNorm(sqrt(RMul(a[1], I(10))), (a[2] - 1) \div 2)

--------------------------------------------------------------------------
\* Matrix4: 16 cells in row-major order, data[row * 4 + column].

\* MatrixIndex
M00 == 0
M01 == 1
M02 == 2
M03 == 3
M10 == 4
M11 == 5
M12 == 6
M13 == 7
M20 == 8
M21 == 9
M22 == 10
M23 == 11
M30 == 12
M31 == 13
M32 == 14
M33 == 15

\* self.data[i] (sequences count from 1).
Cell(self, i) == self[i + 1]

\* Matrix4.__init__: the identity.
Matrix4 ==
    [c \in 1..16 |-> IF (c - 1) \div 4 = (c - 1) % 4 THEN SOne ELSE SZero]

\* __setitem__((row, col), value)
setitem(self, row, col, v) == [self EXCEPT ![row * 4 + col + 1] = v]

\* __mul__ with a Matrix4: result.data[i*4+j] = 0, then += for k = 0..3.
MatMul(self, other) ==
    [c \in 1..16 |->
        LET i == (c - 1) \div 4
            j == (c - 1) % 4
            P(k) == SMul(Cell(self, i * 4 + k), Cell(other, k * 4 + j))
        IN  SAdd(SAdd(SAdd(SAdd(SZero, P(0)), P(1)), P(2)), P(3))]

\* __mul__ with a scalar.
MatScale(self, scalar) == [c \in 1..16 |-> SMul(self[c], scalar)]

transpose(self) ==
    [c \in 1..16 |-> Cell(self, ((c - 1) % 4) * 4 + (c - 1) \div 4)]

\* self.data[p] * (self.data[a] * self.data[b] - self.data[c] * self.data[d])
T3(self, p, a, b, c, d) ==
    SMul(Cell(self, p),
         SSub(SMul(Cell(self, a), Cell(self, b)),
              SMul(Cell(self, c), Cell(self, d))))

\* t1 - t2 + t3
E3(t1, t2, t3) == SAdd(SSub(t1, t2), t3)

cofactor00(self) ==
    E3(T3(self, M11, M22, M33, M23, M32),
       T3(self, M12, M21, M33, M23, M31),
       T3(self, M13, M21, M32, M22, M31))

cofactor01(self) ==
    E3(T3(self, M10, M22, M33, M23, M32),
       T3(self, M12, M20, M33, M23, M30),
       T3(self, M13, M20, M32, M22, M30))

cofactor02(self) ==
    E3(T3(self, M10, M21, M33, M23, M31),
       T3(self, M11, M20, M33, M23, M30),
       T3(self, M13, M20, M31, M21, M30))

cofactor03(self) ==
    E3(T3(self, M10, M21, M32, M22, M31),
       T3(self, M11, M20, M32, M22, M30),
       T3(self, M12, M20, M31, M21, M30))

determinant(self) ==
    SSub(SAdd(SSub(SMul(Cell(self, M00), cofactor00(self)),
                   SMul(Cell(self, M01), cofactor01(self))),
              SMul(Cell(self, M02), cofactor02(self))),
         SMul(Cell(self, M03), cofactor03(self)))

\* inverse: the cells M00 .. M03 of the result.
InverseRow0(self, inv_det) ==
    <<SMul(inv_det, E3(T3(self, M11, M22, M33, M23, M32),
               T3(self, M12, M21, M33, M23, M31),
               T3(self, M13, M21, M32, M22, M31))),
       SMul(SNeg(inv_det), E3(T3(self, M01, M22, M33, M23, M32),
               T3(self, M02, M21, M33, M23, M31),
               T3(self, M03, M21, M32, M22, M31))),
       SMul(inv_det, E3(T3(self, M01, M12, M33, M13, M32),
               T3(self, M02, M11, M33, M13, M31),
               T3(self, M03, M11, M32, M12, M31))),
       SMul(SNeg(inv_det), E3(T3(self, M01, M12, M23, M13, M22),
               T3(self, M02, M11, M23, M13, M21),
               T3(self, M03, M11, M22, M12, M21)))>>

\* inverse: row 1 with the cell M12 computed with inv_det, not -inv_det.
InverseRow1NoSign(self, inv_det) ==
    <<SMul(SNeg(inv_det), E3(T3(self, M10, M22, M33, M23, M32),
               T3(self, M12, M20, M33, M23, M30),
               T3(self, M13, M20, M32, M22, M30))),
       SMul(inv_det, E3(T3(self, M00, M22, M33, M23, M32),
               T3(self, M02, M20, M33, M23, M30),
               T3(self, M03, M20, M32, M22, M30))),
       SMul(inv_det, E3(T3(self, M00, M12, M33, M13, M32),
               T3(self, M02, M10, M33, M13, M30),
               T3(self, M03, M10, M32, M12, M30))),
       SMul(inv_det, E3(T3(self, M00, M12, M23, M13, M22),
               T3(self, M02, M10, M23, M13, M20),
               T3(self, M03, M10, M22, M12, M20)))>>

\* inverse: the cells M10 .. M13 of the result.
InverseRow1(self, inv_det) ==
    <<SMul(SNeg(inv_det), E3(T3(self, M10, M22, M33, M23, M32),
               T3(self, M12, M20, M33, M23, M30),
               T3(self, M13, M20, M32, M22, M30))),
       SMul(inv_det, E3(T3(self, M00, M22, M33, M23, M32),
               T3(self, M02, M20, M33, M23, M30),
               T3(self, M03, M20, M32, M22, M30))),
       SMul(SNeg(inv_det), E3(T3(self, M00, M12, M33, M13, M32),
               T3(self, M02, M10, M33, M13, M30),
               T3(self, M03, M10, M32, M12, M30))),
       SMul(inv_det, E3(T3(self, M00, M12, M23, M13, M22),
               T3(self, M02, M10, M23, M13, M20),
               T3(self, M03, M10, M22, M12, M20)))>>

\* inverse: the cells M20 .. M23 of the result.
InverseRow2(self, inv_det) ==
    <<SMul(inv_det, E3(T3(self, M10, M21, M33, M23, M31),
               T3(self, M11, M20, M33, M23, M30),
               T3(self, M13, M20, M31, M21, M30))),
       SMul(SNeg(inv_det), E3(T3(self, M00, M21, M33, M23, M31),
               T3(self, M01, M20, M33, M23, M30),
               T3(self, M03, M20, M31, M21, M30))),
       SMul(inv_det, E3(T3(self, M00, M11, M33, M13, M31),
               T3(self, M01, M10, M33, M13, M30),
               T3(self, M03, M10, M31, M11, M30))),
       SMul(SNeg(inv_det), E3(T3(self, M00, M11, M23, M13, M21),
               T3(self, M01, M10, M23, M13, M20),
               T3(self, M03, M10, M21, M11, M20)))>>

\* inverse: the cells M30 .. M33 of the result.
InverseRow3(self, inv_det) ==
    <<SMul(SNeg(inv_det), E3(T3(self, M10, M21, M32, M22, M31),
               T3(self, M11, M20, M32, M22, M30),
               T3(self, M12, M20, M31, M21, M30))),
       SMul(inv_det, E3(T3(self, M00, M21, M32, M22, M31),
               T3(self, M01, M20, M32, M22, M30),
               T3(self, M02, M20, M31, M21, M30))),
       SMul(SNeg(inv_det), E3(T3(self, M00, M11, M32, M12, M31),
               T3(self, M01, M10, M32, M12, M30),
               T3(self, M02, M10, M31, M11, M30))),
       SMul(inv_det, E3(T3(self, M00, M11, M22, M12, M21),
               T3(self, M01, M10, M22, M12, M20),
               T3(self, M02, M10, M21, M11, M20)))>>

\* 1e-10
Eps10 == Sci(1, 1, -10)

\* What a call gives back: a value, or the exception it raised.
Returned(v) == [raised |-> "", value |-> v]
Raised(e) == [raised |-> e, value |-> <<>>]

\* inverse: the test is on det, not on its size.
SingularNoAbs(det) == SLt(det, Eps10)

\* inverse: if abs(det) < 1e-10
Singular(det) == SLt(SAbs(det), Eps10)

inverse(self) ==
    LET det == determinant(self)
        inv_det == SDiv(SOne, det)
    IN  IF Singular(det) THEN Raised("ValueError")
        ELSE Returned(InverseRow0(self, inv_det) \o InverseRow1(self, inv_det)
                      \o InverseRow2(self, inv_det)
                      \o InverseRow3(self, inv_det))

\* Matrix4.translation(x, y, z)
translation(x, y, z) ==
    [Matrix4 EXCEPT ![M03 + 1] = x, ![M13 + 1] = y, ![M23 + 1] = z]

\* Matrix4.scaling(x, y, z)
scaling(x, y, z) ==
    [Matrix4 EXCEPT ![M00 + 1] = x, ![M11 + 1] = y, ![M22 + 1] = z]

\* Every cell of the matrix is in the number domain.
NumMatrix(self) == \A c \in 1..16 : IsS(self[c])

--------------------------------------------------------------------------
\* VectorMath.  A vector is a record of 2, 3 or 4 components x, y, z, w; the
\* Vec2/Vec3/Vec4 structs and the Vector2/Vector3/Vector4 classes hold the
\* same fields.  The source has the classes in two drafts: one built on
\* fast_invsqrt and an epsilon, one built on sqrt.

Vector2(x, y) == [x |-> x, y |-> y]
Vector3(x, y, z) == [x |-> x, y |-> y, z |-> z]
Vector4(x, y, z, w) == [x |-> x, y |-> y, z |-> z, w |-> w]

Dim(v) == Cardinality(DOMAIN v)
NumVector(v) == \A c \in DOMAIN v : IsS(v[c])
ZeroVector(v) == [c \in DOMAIN v |-> SZero]

\* x*x + y*y (+ z*z (+ w*w)), added from the left.
length_squared(v) ==
    LET xy == SAdd(SMul(v.x, v.x), SMul(v.y, v.y))
    IN  IF Dim(v) = 2 THEN xy
        ELSE IF Dim(v) = 3 THEN SAdd(xy, SMul(v.z, v.z))
        ELSE SAdd(SAdd(xy, SMul(v.z, v.z)), SMul(v.w, v.w))

\* fast_invsqrt, the draft that refines 1 / sqrt(x) by one Newton step.
fast_invsqrt(x) ==
    IF SLe(x, SZero) THEN SZero
    ELSE LET y == SDiv(SOne, Ssqrt(x))
         IN  SMul(y, SSub(Sci(3, 2, 0),
                          SMul(SMul(SMul(Sci(1, 2, 0), x), y), y)))

\* __mul__ and vecN_mul with a number.
vec_mul(v, scalar) == [c \in DOMAIN v |-> SMul(v[c], scalar)]

\* vecN_div that leaves the vector as it is for the scalar 0.
vecN_divKeeps(v, scalar) ==
    IF scalar = SZero THEN Returned(v)
    ELSE Returned([c \in DOMAIN v |-> SDiv(v[c], scalar)])

\* vec2_div, vec3_div, vec4_div.
vecN_div(v, scalar) ==
    IF scalar = SZero THEN Returned(ZeroVector(v))
    ELSE Returned([c \in DOMAIN v |-> SDiv(v[c], scalar)])

\* Vector2, Vector3, Vector4 / number, in the fast_invsqrt draft.
Vector_truediv(self, scalar) ==
    IF scalar = SZero THEN Raised("ZeroDivisionError")
    ELSE Returned([c \in DOMAIN self |-> SDiv(self[c], scalar)])

\* Vector2, Vector3, Vector4 / number, in the sqrt draft: the operand is a
\* Python object, and a Python division by 0 raises.
Vector_truediv_py(self, value) ==
    IF value = SZero THEN Raised("ZeroDivisionError")
    ELSE Returned([c \in DOMAIN self |-> SDiv(self[c], value)])

\* vec2_normalize, vec3_normalize, vec4_normalize and normalize() of the
\* classes in the fast_invsqrt draft.
vecN_normalizeNoEps(v) ==
    LET len_sq == length_squared(v)
        inv_len == fast_invsqrt(len_sq)
    IN  IF SGt(len_sq, SZero)
        THEN [c \in DOMAIN v |-> SMul(v[c], inv_len)]
        ELSE ZeroVector(v)

vecN_normalize(v) ==
    LET len_sq == length_squared(v)
        inv_len == fast_invsqrt(len_sq)
    IN  IF SGt(len_sq, Eps10)
        THEN [c \in DOMAIN v |-> SMul(v[c], inv_len)]
        ELSE ZeroVector(v)

\* length() and normalize() of the classes in the sqrt draft.
Vector_length(self) == Ssqrt(length_squared(self))

Vector_normalize(self) ==
    LET len_val == Vector_length(self)
    IN  IF SGt(len_val, SZero)
        THEN [c \in DOMAIN self |-> SDiv(self[c], len_val)]
        ELSE ZeroVector(self)

\* vec_normalize of the physics core, on its Vector2D struct.
vec_normalize(v) ==
    LET length_sq == SAdd(SMul(v.x, v.x), SMul(v.y, v.y))
        inv_length == SDiv(SOne, Ssqrt(length_sq))
    IN  IF SGt(length_sq, SZero)
        THEN Vector2(SMul(v.x, inv_length), SMul(v.y, inv_length))
        ELSE Vector2(SZero, SZero)

--------------------------------------------------------------------------
\* Quaternion (x, y, z, w); Quaternion() is the identity.

Quaternion(x, y, z, w) == [x |-> x, y |-> y, z |-> z, w |-> w]

QIdentity == Quaternion(SZero, SZero, SZero, SOne)

NumVector3(v) == IsS(v.x) /\ IsS(v.y) /\ IsS(v.z)
NumQuaternion(q) == IsS(q.x) /\ IsS(q.y) /\ IsS(q.z) /\ IsS(q.w)

\* a + b + c + d, added from the left as the code writes it.
Sum4(a, b, c, d) == SAdd(SAdd(SAdd(a, b), c), d)

\* __mul__ with a number.
quat_scale(self, v) ==
    Quaternion(SMul(self.x, v), SMul(self.y, v), SMul(self.z, v),
               SMul(self.w, v))

\* __mul__ with a Quaternion: the Hamilton product.
quat_mul(self, q) ==
    Quaternion(
        SSub(SAdd(SAdd(SMul(self.w, q.x), SMul(self.x, q.w)),
                  SMul(self.y, q.z)), SMul(self.z, q.y)),
        SAdd(SAdd(SSub(SMul(self.w, q.y), SMul(self.x, q.z)),
                  SMul(self.y, q.w)), SMul(self.z, q.x)),
        SAdd(SSub(SAdd(SMul(self.w, q.z), SMul(self.x, q.y)),
                  SMul(self.y, q.x)), SMul(self.z, q.w)),
        SSub(SSub(SSub(SMul(self.w, q.w), SMul(self.x, q.x)),
                  SMul(self.y, q.y)), SMul(self.z, q.z)))

quat_length_sq(self) ==
    Sum4(SMul(self.x, self.x), SMul(self.y, self.y), SMul(self.z, self.z),
         SMul(self.w, self.w))

quat_length(self) == Ssqrt(quat_length_sq(self))

\* normalize() without the test of the length.
quat_normalizeNoEps(self) ==
    LET len_val == quat_length(self)
    IN  Quaternion(SDiv(self.x, len_val), SDiv(self.y, len_val),
                   SDiv(self.z, len_val), SDiv(self.w, len_val))

quat_normalize(self) ==
    LET len_val == quat_length(self)
    IN  IF SLt(len_val, Eps10) THEN QIdentity
        ELSE Quaternion(SDiv(self.x, len_val), SDiv(self.y, len_val),
                        SDiv(self.z, len_val), SDiv(self.w, len_val))

conjugate(self) == Quaternion(SNeg(self.x), SNeg(self.y), SNeg(self.z), self.w)

\* inverse() without the conjugation.
quat_inverseNoConj(self) ==
    LET len_sq == quat_length_sq(self)
        inv_len_sq == SDiv(SOne, len_sq)
    IN  IF SLt(len_sq, Eps10) THEN QIdentity
        ELSE Quaternion(SMul(self.x, inv_len_sq), SMul(self.y, inv_len_sq),
                        SMul(self.z, inv_len_sq), SMul(self.w, inv_len_sq))

quat_inverse(self) ==
    LET len_sq == quat_length_sq(self)
        inv_len_sq == SDiv(SOne, len_sq)
    IN  IF SLt(len_sq, Eps10) THEN QIdentity
        ELSE Quaternion(SMul(SNeg(self.x), inv_len_sq),
                        SMul(SNeg(self.y), inv_len_sq),
                        SMul(SNeg(self.z), inv_len_sq),
                        SMul(self.w, inv_len_sq))

\* rotate_vector3 with the conjugate on the left: conjugate(self) * vq * self.
rotate_vector3Reversed(self, v) ==
    LET vq == Quaternion(v.x, v.y, v.z, SZero)
        q_inv == conjugate(self)
        res == quat_mul(quat_mul(q_inv, vq), self)
    IN  Vector3(res.x, res.y, res.z)

\* self * vq * conjugate(self); self is used as it is, not normalized.
rotate_vector3(self, v) ==
    LET vq == Quaternion(v.x, v.y, v.z, SZero)
        q_inv == conjugate(self)
        res == quat_mul(quat_mul(self, vq), q_inv)
    IN  Vector3(res.x, res.y, res.z)

\* Matrix4.transform_vector3 without the perspective division.
transform_vector3NoDivide(self, v) ==
    LET x == SAdd(SAdd(SAdd(SMul(Cell(self, M00), v.x),
                            SMul(Cell(self, M01), v.y)),
                       SMul(Cell(self, M02), v.z)), Cell(self, M03))
        y == SAdd(SAdd(SAdd(SMul(Cell(self, M10), v.x),
                            SMul(Cell(self, M11), v.y)),
                       SMul(Cell(self, M12), v.z)), Cell(self, M13))
        z == SAdd(SAdd(SAdd(SMul(Cell(self, M20), v.x),
                            SMul(Cell(self, M21), v.y)),
                       SMul(Cell(self, M22), v.z)), Cell(self, M23))
    IN  Vector3(x, y, z)

\* Matrix4.transform_vector3: v as (x, y, z, 1).
transform_vector3(self, v) ==
    LET x == SAdd(SAdd(SAdd(SMul(Cell(self, M00), v.x),
                            SMul(Cell(self, M01), v.y)),
                       SMul(Cell(self, M02), v.z)), Cell(self, M03))
        y == SAdd(SAdd(SAdd(SMul(Cell(self, M10), v.x),
                            SMul(Cell(self, M11), v.y)),
                       SMul(Cell(self, M12), v.z)), Cell(self, M13))
        z == SAdd(SAdd(SAdd(SMul(Cell(self, M20), v.x),
                            SMul(Cell(self, M21), v.y)),
                       SMul(Cell(self, M22), v.z)), Cell(self, M23))
        w == SAdd(SAdd(SAdd(SMul(Cell(self, M30), v.x),
                            SMul(Cell(self, M31), v.y)),
                       SMul(Cell(self, M32), v.z)), Cell(self, M33))
    IN  IF w # SOne /\ w # SZero
        THEN Vector3(SDiv(x, w), SDiv(y, w), SDiv(z, w))
        ELSE Vector3(x, y, z)

\* The cells of to_rotation_matrix with those above and below the diagonal
\* exchanged.
RotationCellsTransposed(q) ==
    LET xx == SMul(q.x, q.x)
        xy == SMul(q.x, q.y)
        xz == SMul(q.x, q.z)
        xw == SMul(q.x, q.w)
        yy == SMul(q.y, q.y)
        yz == SMul(q.y, q.z)
        yw == SMul(q.y, q.w)
        zz == SMul(q.z, q.z)
        zw == SMul(q.z, q.w)
    IN  << SSub(SOne, SMul(STwo, SAdd(yy, zz))),
           SMul(STwo, SAdd(xy, zw)),
           SMul(STwo, SSub(xz, yw)),
           SZero,
           SMul(STwo, SSub(xy, zw)),
           SSub(SOne, SMul(STwo, SAdd(xx, zz))),
           SMul(STwo, SAdd(yz, xw)),
           SZero,
           SMul(STwo, SAdd(xz, yw)),
           SMul(STwo, SSub(yz, xw)),
           SSub(SOne, SMul(STwo, SAdd(xx, yy))),
           SZero,
           SZero, SZero, SZero, SOne >>

\* The cells m.data[0] .. m.data[15] that to_rotation_matrix fills from the
\* normalized quaternion q.
RotationCells(q) ==
    LET xx == SMul(q.x, q.x)
        xy == SMul(q.x, q.y)
        xz == SMul(q.x, q.z)
        xw == SMul(q.x, q.w)
        yy == SMul(q.y, q.y)
        yz == SMul(q.y, q.z)
        yw == SMul(q.y, q.w)
        zz == SMul(q.z, q.z)
        zw == SMul(q.z, q.w)
    IN  << SSub(SOne, SMul(STwo, SAdd(yy, zz))),
           SMul(STwo, SSub(xy, zw)),
           SMul(STwo, SAdd(xz, yw)),
           SZero,
           SMul(STwo, SAdd(xy, zw)),
           SSub(SOne, SMul(STwo, SAdd(xx, zz))),
           SMul(STwo, SSub(yz, xw)),
           SZero,
           SMul(STwo, SSub(xz, yw)),
           SMul(STwo, SAdd(yz, xw)),
           SSub(SOne, SMul(STwo, SAdd(xx, yy))),
           SZero,
           SZero, SZero, SZero, SOne >>

\* to_rotation_matrix: q = self.normalize(), then the cells.
to_rotation_matrix(self) == RotationCells(quat_normalize(self))

\* The quaternion from_matrix builds in each of its four branches, from the
\* factor s of the branch; m[c + 1] is m.data[c].
FromMatrixWith(m, branch, s) ==
    IF branch = "trace"
    THEN Quaternion(SMul(SSub(m[10], m[7]), s),
                    SMul(SSub(m[3], m[9]), s),
                    SMul(SSub(m[5], m[2]), s),
                    SDiv(Sci(1, 4, 0), s))
    ELSE IF branch = "m00"
    THEN Quaternion(SMul(Sci(1, 4, 0), s),
                    SDiv(SAdd(m[2], m[5]), s),
                    SDiv(SAdd(m[3], m[9]), s),
                    SDiv(SSub(m[10], m[7]), s))
    ELSE IF branch = "m11"
    THEN Quaternion(SDiv(SAdd(m[2], m[5]), s),
                    SMul(Sci(1, 4, 0), s),
                    SDiv(SAdd(m[7], m[10]), s),
                    SDiv(SSub(m[3], m[9]), s))
    ELSE Quaternion(SDiv(SAdd(m[3], m[9]), s),
                    SDiv(SAdd(m[7], m[10]), s),
                    SMul(Sci(1, 4, 0), s),
                    SDiv(SSub(m[5], m[2]), s))

\* Quaternion.from_matrix(m)
from_matrix(m) ==
    LET trace == SAdd(SAdd(m[1], m[6]), m[11])
    IN  IF SGt(trace, SZero)
        THEN FromMatrixWith(m, "trace",
                 SDiv(Sci(1, 2, 0), Ssqrt(SAdd(trace, SOne))))
        ELSE IF SGt(m[1], m[6]) /\ SGt(m[1], m[11])
        THEN FromMatrixWith(m, "m00",
                 SMul(STwo, Ssqrt(SSub(SSub(SAdd(SOne, m[1]), m[6]), m[11]))))
        ELSE IF SGt(m[6], m[11])
        THEN FromMatrixWith(m, "m11",
                 SMul(STwo, Ssqrt(SSub(SSub(SAdd(SOne, m[6]), m[1]), m[11]))))
        ELSE FromMatrixWith(m, "m22",
                 SMul(STwo, Ssqrt(SSub(SSub(SAdd(SOne, m[11]), m[1]), m[6]))))

\* max and min of two numbers.
SMax(a, b) == IF SGt(b, a) THEN b ELSE a
SMin(a, b) == IF SLt(b, a) THEN b ELSE a

\* libc acos and sin.  acos(c) is kept as the angle it names, k * acos(c)
\* with k = 1, and a product of a number with an angle multiplies k; sin is
\* in the number domain for k in {-1, 0, 1/2, 1, 2} where its value is a
\* root the domain holds.  acos(1) is 0.0.
acos(c) == [cos |-> c, times |-> SOne]

AngleTimes(k, theta) == [cos |-> theta.cos, times |-> SMul(k, theta.times)]

sin(a) ==
    LET c == a.cos
        s == Ssqrt(SSub(SOne, SMul(c, c)))
    IN  IF ~IsS(c) \/ ~IsS(a.times) THEN SNaN
        ELSE IF c = SOne \/ a.times = SZero THEN SZero
        ELSE IF a.times = SOne THEN s
        ELSE IF a.times = SI(-1) THEN SNeg(s)
        ELSE IF a.times = STwo THEN SMul(STwo, SMul(s, c))
        ELSE IF a.times = Sci(1, 2, 0)
             THEN Ssqrt(SDiv(SSub(SOne, c), STwo))
        ELSE SNaN

Eps6 == Sci(1, 1, -6)

\* slerp after the clamp of t.
SlerpFrom(a, b, t) ==
    LET dot0 == Sum4(SMul(a.x, b.x), SMul(a.y, b.y), SMul(a.z, b.z),
                     SMul(a.w, b.w))
        b_adj == IF SLt(dot0, SZero)
                 THEN Quaternion(SNeg(b.x), SNeg(b.y), SNeg(b.z), SNeg(b.w))
                 ELSE b
        dot1 == IF SLt(dot0, SZero) THEN SNeg(dot0) ELSE dot0
        dot == SMax(SI(-1), SMin(dot1, SOne))
        theta == acos(dot)
        sin_theta == sin(theta)
        u == SSub(SOne, t)
        s0 == SDiv(sin(AngleTimes(u, theta)), sin_theta)
        s1 == SDiv(sin(AngleTimes(t, theta)), sin_theta)
    IN  IF ~IsS(sin_theta)
        THEN Quaternion(SNaN, SNaN, SNaN, SNaN)
        ELSE IF SLt(sin_theta, Eps6)
        THEN quat_normalize(Quaternion(
                 SAdd(SMul(a.x, u), SMul(b_adj.x, t)),
                 SAdd(SMul(a.y, u), SMul(b_adj.y, t)),
                 SAdd(SMul(a.z, u), SMul(b_adj.z, t)),
                 SAdd(SMul(a.w, u), SMul(b_adj.w, t))))
        ELSE quat_normalize(Quaternion(
                 SAdd(SMul(a.x, s0), SMul(b_adj.x, s1)),
                 SAdd(SMul(a.y, s0), SMul(b_adj.y, s1)),
                 SAdd(SMul(a.z, s0), SMul(b_adj.z, s1)),
                 SAdd(SMul(a.w, s0), SMul(b_adj.w, s1))))

\* slerp without the clamp of t.
slerpNoClamp(a, b, t) == SlerpFrom(a, b, t)

slerp(a, b, t) == SlerpFrom(a, b, SMax(SZero, SMin(t, SOne)))

--------------------------------------------------------------------------
\* The core as the simulation loop drives it: a list of entities the world
\* owns, and the calls on it in any order.

VARIABLES
    entities,   \* the entity list, mutated in place by every call
    pre,        \* the list as it was before the last call
    call,       \* the last call: its name and arguments
    log,        \* what the last resolve_collisions pass tested and handled
    hist,       \* the names of the calls so far
    start,      \* the list as the world created it
    value,      \* the Matrix4, Quaternion or vector a collaborator holds
    result      \* the last call on it: its name, its operands and its outcome

vars == <<entities, pre, call, log, hist, start, value, result>>

\* The variables of the math layer and of the physics core.
math == <<value, result>>
physics == <<entities, pre, log, start>>

F(n, d) == Norm(n, d)

Body(x, y, radius, vx, vy, mass, active) ==
    [NewEntity EXCEPT !.x = x, !.y = y, !.radius = radius, !.vx = vx,
                      !.vy = vy, !.mass = mass, !.active = active]

\* Placements <<x, y, radius>> of three bodies.
Shapes ==
    { \* nothing touches
      << <<I(0), I(0), I(1)>>, <<I(6), I(0), I(1)>>, <<I(0), I(6), I(1)>> >>,
      \* head on along x, the third far away
      << <<I(0), I(0), I(1)>>, <<F(3, 2), I(0), I(1)>>, <<I(6), I(0), I(1)>> >>,
      \* a chain: 1-2, 1-3 and 2-3 all overlap
      << <<I(0), I(0), I(1)>>, <<I(1), I(0), I(1)>>, <<F(19, 10), I(0), I(1)>> >>,
      \* 1-2 overlap, 3 within reach of 1 only after 1 is pushed
      << <<I(1), I(0), I(1)>>, <<I(0), I(0), I(1)>>, <<F(16, 5), I(0), I(1)>> >>,
      \* one body straight above another
      << <<I(0), F(3, 2), I(1)>>, <<I(0), I(0), I(1)>>, <<I(6), I(0), I(1)>> >>,
      \* overlap along the direction (3/5, 4/5), unequal radii
      << <<I(0), I(0), I(1)>>, <<F(3, 5), F(4, 5), F(1, 2)>>,
         <<I(6), I(0), I(1)>> >>,
      \* exactly touching
      << <<I(0), I(0), I(1)>>, <<I(2), I(0), I(1)>>, <<I(2), I(6), F(1, 2)>> >>,
      \* coincident centres, and a third closer than 0.01
      << <<I(0), I(0), I(1)>>, <<I(0), I(0), I(1)>>, <<F(1, 200), I(0), I(1)>> >>,
      \* squared distance exactly 0.0001
      << <<I(0), I(0), I(1)>>, <<F(1, 100), I(0), I(1)>>,
         <<I(6), I(0), I(1)>> >> }

\* Velocities <<vx, vy>>.
Velocities ==
    { << <<I(1), I(0)>>, <<I(-1), I(0)>>, <<I(0), I(0)>> >>,
      << <<I(0), I(-5)>>, <<I(0), I(0)>>, <<I(1), I(1)>> >>,
      << <<I(1), I(1)>>, <<I(-1), I(2)>>, <<I(-2), I(-1)>> >>,
      << <<I(10), I(0)>>, <<I(0), I(0)>>, <<I(0), I(0)>> >> }

Masses ==
    { <<I(1), I(1), I(1)>>, <<I(1), I(2), I(1)>>, <<I(1), I(0), I(2)>>,
      <<I(-1), I(2), I(0)>>, <<I(0), I(-1), I(1)>> }

AllActive == <<TRUE, TRUE, TRUE>>
SomeInactive == { <<TRUE, FALSE, TRUE>>, <<FALSE, TRUE, TRUE>> }

World(sh, vs, ms, as) ==
    [i \in 1..Len(sh) |->
        Body(sh[i][1], sh[i][2], sh[i][3], vs[i][1], vs[i][2], ms[i], as[i])]

\* Four bodies: 1 and 2 overlap, 3 is out of reach of both and overlaps only
\* the inactive 4.
FourBodies ==
    { World(<< <<I(1), I(0), I(1)>>, <<I(0), I(0), I(1)>>,
               <<F(16, 5), I(0), I(1)>>, <<I(4), I(0), I(1)>> >>,
            << <<I(1), I(0)>>, <<I(-1), I(0)>>, <<I(0), I(1)>>, <<I(1), I(1)>> >>,
            <<I(1), I(1), I(1), I(1)>>,
            <<TRUE, TRUE, TRUE, FALSE>>) }

\* Two bodies at the same place and a body without mass that overlaps both
\* from the left.
Cornered ==
    { World(<< <<I(0), I(0), I(1)>>, <<I(0), I(0), I(1)>>,
               <<F(-19, 10), I(0), I(1)>> >>,
            << <<I(0), I(0)>>, <<I(0), I(0)>>, <<I(0), I(0)>> >>,
            <<I(1), I(1), I(0)>>,
            AllActive) }

\* The lists the world hands to the core.
Worlds ==
    { World(sh, vs, ms, AllActive) :
        sh \in Shapes, vs \in Velocities, ms \in Masses }
    \cup { World(sh, vs, <<I(1), I(2), I(1)>>, as) :
        sh \in Shapes, vs \in Velocities, as \in SomeInactive }
    \cup FourBodies \cup Cornered

\* Arguments of the calls.
Dts == { I(1), F(1, 60) }
Forces == { <<I(3), I(-6)>> }
\* 7, -1, 100, 2*M_PI, -2*M_PI, -2^-60 and 3 - 2^-50.
Torques ==
    { DInt(7), DInt(-1), DInt(100), TwoPi, DNeg(TwoPi),
      DScale(DInt(-1), -60), DSub(DInt(3), DScale(DInt(1), -50)) }
Coefs == { I(1), F(4, 5) }

Call(name, i, p, q) == [name |-> name, i |-> i, p |-> p, q |-> q]
NoLog == [tested |-> <<>>, handled |-> <<>>, missed |-> <<>>]
NoResult == [op |-> "none", self |-> <<>>, arg |-> <<>>, out |-> <<>>]

Init ==
    /\ entities \in Worlds
    /\ value = <<>>
    /\ result = NoResult
    /\ pre = entities
    /\ start = entities
    /\ call = Call("none", 0, Zero, Zero)
    /\ log = NoLog
    /\ hist = <<>>

UpdatePositions ==
    \E dt \in Dts :
        /\ Len(hist) < MaxSteps
        /\ entities' = update_positions(entities, dt)
        /\ \A k \in 1..Len(entities) : NumEntity(entities'[k])
        /\ pre' = entities
        /\ call' = Call("update_positions", 0, dt, Zero)
        /\ log' = NoLog
        /\ hist' = Append(hist, "update_positions")
        /\ UNCHANGED <<start, math>>

ApplyForce ==
    \E i \in 1..Len(entities), f \in Forces :
        /\ Len(hist) < MaxSteps
        /\ entities' = [entities EXCEPT ![i] = apply_force(@, f[1], f[2])]
        /\ \A k \in 1..Len(entities) : NumEntity(entities'[k])
        /\ pre' = entities
        /\ call' = Call("apply_force", i, f[1], f[2])
        /\ log' = NoLog
        /\ hist' = Append(hist, "apply_force")
        /\ UNCHANGED <<start, math>>

ApplyTorque ==
    \E i \in 1..Len(entities), t \in Torques :
        /\ Len(hist) < MaxSteps
        /\ entities' = [entities EXCEPT ![i] = apply_torque(@, t)]
        /\ \A k \in 1..Len(entities) : NumEntity(entities'[k])
        /\ pre' = entities
        /\ call' = Call("apply_torque", i, t, Zero)
        /\ log' = NoLog
        /\ hist' = Append(hist, "apply_torque")
        /\ UNCHANGED <<start, math>>

ResolveCollisions ==
    \E coef \in Coefs :
        /\ Len(hist) < MaxSteps
        /\ \E r \in { resolve_collisions(entities, coef) } :
            /\ r.ok
            /\ entities' = r.ents
            /\ log' = [tested |-> r.tested, handled |-> r.handled,
                        missed |-> r.missed]
        /\ pre' = entities
        /\ call' = Call("resolve_collisions", 0, coef, Zero)
        /\ hist' = Append(hist, "resolve_collisions")
        /\ UNCHANGED <<start, math>>

Next == UpdatePositions \/ ApplyForce \/ ResolveCollisions

Spec == Init /\ [][Next]_vars

\* The four calls of the core on a few of the lists: the chain and the pair
\* that reaches a third entity, with and without an immovable and an inactive
\* entity.
CoreWorlds ==
    { World(sh, << <<I(1), I(0)>>, <<I(-1), I(0)>>, <<I(0), I(0)>> >>, ms, as) :
        sh \in { << <<I(0), I(0), I(1)>>, <<I(1), I(0), I(1)>>,
                    <<F(19, 10), I(0), I(1)>> >>,
                 << <<I(1), I(0), I(1)>>, <<I(0), I(0), I(1)>>,
                    <<F(16, 5), I(0), I(1)>> >> },
        ms \in { <<I(1), I(2), I(1)>>, <<I(1), I(0), I(2)>> },
        as \in { AllActive, <<TRUE, TRUE, FALSE>> } }

CoreInit ==
    /\ entities \in CoreWorlds
    /\ value = <<>>
    /\ result = NoResult
    /\ pre = entities
    /\ start = entities
    /\ call = Call("none", 0, Zero, Zero)
    /\ log = NoLog
    /\ hist = <<>>

CoreNext == UpdatePositions \/ ApplyForce \/ ApplyTorque \/ ResolveCollisions

CoreSpec == CoreInit /\ [][CoreNext]_vars

\* One entity under the calls of the integrator that take a single entity.
Lone ==
    { <<Body(I(0), I(0), I(1), I(0), I(-5), mass, TRUE)>> :
        mass \in { I(1), I(2), F(1, 2), I(0), I(-1) } }

IntegratorInit ==
    /\ entities \in Lone
    /\ value = <<>>
    /\ result = NoResult
    /\ pre = entities
    /\ start = entities
    /\ call = Call("none", 0, Zero, Zero)
    /\ log = NoLog
    /\ hist = <<>>

IntegratorNext == ApplyForce \/ ApplyTorque

IntegratorSpec == IntegratorInit /\ [][IntegratorNext]_vars

--------------------------------------------------------------------------
\* A Matrix4 in the hands of a caller: built as the identity, changed cell by
\* cell and by products with other matrices, and inverted.

\* The matrix with the rows r0 .. r3 of whole numbers.
FromRows(r0, r1, r2, r3) ==
    [c \in 1..16 |-> SI((r0 \o r1 \o r2 \o r3)[c])]

\* The matrices a product is taken with.
Factors ==
    { translation(SI(1), SI(2), SI(3)),
      scaling(SI(2), SI(-3), Sci(1, 10, 0)),
      scaling(Sci(1, 1, -5), Sci(1, 1, -5), SI(1)),
      scaling(Sci(-1, 1, -5), Sci(1, 1, -6), SI(1)),
      FromRows(<<2, 1, 0, 1>>, <<1, 3, 1, 0>>, <<0, 1, 2, 1>>, <<1, 0, 1, 4>>),
      FromRows(<<1, 2, 3, 4>>, <<0, -1, 2, 5>>, <<3, 0, 1, -2>>,
               <<1, 1, 0, 2>>) }

\* The cells and the values of __setitem__.
SetCells == { <<0, 1>>, <<1, 0>>, <<1, 2>>, <<2, 3>>, <<3, 0>>, <<3, 3>> }
SetValues == { SI(2), SI(-1), SI(0) }

\* The vectors a matrix transforms.
Points ==
    { Vector3(SI(1), SZero, SZero),
      Vector3(SI(-2), Sci(1, 2, 0), SI(5)) }

Result(op, self, arg, out) ==
    [op |-> op, self |-> self, arg |-> arg, out |-> out]

MatrixInit ==
    /\ value = Matrix4
    /\ result = NoResult
    /\ call = Call("none", 0, Zero, Zero)
    /\ hist = <<>>
    /\ entities = <<>>
    /\ pre = <<>>
    /\ start = <<>>
    /\ log = NoLog

MatSetItem ==
    \E idx \in SetCells, v \in SetValues :
        /\ Len(hist) < MaxSteps
        /\ value' = setitem(value, idx[1], idx[2], v)
        /\ result' = Result("setitem", value, <<idx, v>>, Returned(value'))
        /\ hist' = Append(hist, "setitem")
        /\ UNCHANGED <<call, physics>>

MatTimes ==
    \E other \in Factors :
        /\ Len(hist) < MaxSteps
        /\ value' = MatMul(value, other)
        /\ NumMatrix(value')
        /\ result' = Result("mul", value, other, Returned(value'))
        /\ hist' = Append(hist, "mul")
        /\ UNCHANGED <<call, physics>>

\* inverse() gives a new matrix and leaves self as it is.
MatInverse ==
    LET out == inverse(value)
    IN  /\ result.op # "inverse"
        /\ IsS(determinant(value))
        /\ out.raised = "" => NumMatrix(out.value)
        /\ result' = Result("inverse", value, <<>>, out)
        /\ UNCHANGED <<value, hist, call, physics>>

\* transform_vector3 gives a new vector and leaves self as it is.
MatTransform ==
    \E v \in Points :
        \E out \in { transform_vector3(value, v) } :
            /\ NumVector3(out)
            /\ result' = Result("transform_vector3", value, v, out)
            /\ UNCHANGED <<value, hist, call, physics>>

MatrixNext == MatSetItem \/ MatTimes \/ MatInverse \/ MatTransform

MatrixSpec == MatrixInit /\ [][MatrixNext]_vars

--------------------------------------------------------------------------
\* A Quaternion in the hands of a caller: built as the identity, composed
\* with other rotations, scaled, inverted and used to rotate vectors.

\* The rotations a product is taken with: unit quaternions.
QFactors ==
    { Quaternion(Sci(1, 2, 0), Sci(1, 2, 0), Sci(1, 2, 0), Sci(1, 2, 0)),
      Quaternion(SZero, Sci(3, 5, 0), SZero, Sci(-4, 5, 0)),
      Quaternion(Sci(2, 3, 0), Sci(1, 3, 0), Sci(2, 3, 0), SZero),
      Quaternion(Sci(2, 7, 0), Sci(-3, 7, 0), SZero, Sci(6, 7, 0)) }

QScalars == { SI(2), Sci(1, 1, -6) }

\* A rotation whose half angle has a sine and a cosine in the number domain.
SlerpTurn == Quaternion(Sci(24, 25, 0), SZero, SZero, Sci(7, 25, 0))

\* The parameters t of slerp, within [0, 1] and outside it.
SlerpTs == { SI(-1), SZero, Sci(1, 2, 0), SOne, STwo }

Vectors ==
    { Vector3(SI(1), SZero, SZero),
      Vector3(SI(-2), Sci(1, 2, 0), SI(5)) }

QuaternionInit ==
    /\ value = QIdentity
    /\ result = NoResult
    /\ call = Call("none", 0, Zero, Zero)
    /\ hist = <<>>
    /\ entities = <<>>
    /\ pre = <<>>
    /\ start = <<>>
    /\ log = NoLog

QuatTimes ==
    \E q \in QFactors :
        /\ Len(hist) < MaxSteps
        /\ value' = quat_mul(value, q)
        /\ NumQuaternion(value')
        /\ result' = Result("mul", value, q, value')
        /\ hist' = Append(hist, "mul")
        /\ UNCHANGED <<call, physics>>

QuatScale ==
    \E s \in QScalars :
        /\ Len(hist) < MaxSteps
        /\ value' = quat_scale(value, s)
        /\ NumQuaternion(value')
        /\ result' = Result("mul", value, s, value')
        /\ hist' = Append(hist, "mul")
        /\ UNCHANGED <<call, physics>>

\* inverse() gives a new quaternion and leaves self as it is.
QuatInverse ==
    LET out == quat_inverse(value)
    IN  /\ result.op # "inverse"
        /\ NumQuaternion(out)
        /\ result' = Result("inverse", value, <<>>, out)
        /\ UNCHANGED <<value, hist, call, physics>>

\* rotate_vector3 on the quaternion or on its inverse, with a vector of the
\* caller or with the vector the last rotation gave.
QuatRotate ==
    \E self \in { value, quat_inverse(value) } :
        \E v \in Vectors \cup
                 (IF result.op = "rotate_vector3" /\ result.arg \in Vectors
                  THEN { result.out } ELSE {}) :
            LET out == rotate_vector3(self, v)
            IN  /\ NumQuaternion(self)
                /\ NumVector3(out)
                /\ result' = Result("rotate_vector3", self, v, out)
                /\ UNCHANGED <<value, hist, call, physics>>

\* slerp from the quaternion to another one, to itself, to its negation or
\* to its product with SlerpTurn.
QuatSlerp ==
    \E b \in QFactors \cup { value, quat_scale(value, SI(-1)),
                             quat_mul(value, SlerpTurn) } :
        \E t \in SlerpTs :
            \E out \in { slerp(value, b, t) } :
                /\ result.op # "slerp"
                /\ NumQuaternion(b)
                /\ NumQuaternion(out)
                /\ result' = Result("slerp", value, <<b, t>>, out)
                /\ UNCHANGED <<value, hist, call, physics>>

\* normalize() gives a new quaternion and leaves self as it is.
QuatNormalize ==
    \E out \in { quat_normalize(value) } :
        /\ result.op # "normalize"
        /\ NumQuaternion(out)
        /\ result' = Result("normalize", value, <<>>, out)
        /\ UNCHANGED <<value, hist, call, physics>>

QuatToMatrix ==
    \E out \in { to_rotation_matrix(value) } :
        /\ result.op # "to_rotation_matrix"
        /\ NumMatrix(out)
        /\ result' = Result("to_rotation_matrix", value, <<>>, out)
        /\ UNCHANGED <<value, hist, call, physics>>

\* Quaternion.from_matrix on the matrix to_rotation_matrix has just given.
QuatFromMatrix ==
    /\ result.op = "to_rotation_matrix"
    /\ \E out \in { from_matrix(result.out) } :
        /\ NumQuaternion(out)
        /\ result' = Result("from_matrix", <<>>, result.out, out)
    /\ UNCHANGED <<value, hist, call, physics>>

\* transform_vector3 of the matrix to_rotation_matrix has just given.
QuatTransform ==
    /\ result.op = "to_rotation_matrix"
    /\ \E v \in Vectors :
        \E out \in { transform_vector3(result.out, v) } :
            /\ NumVector3(out)
            /\ result' = Result("transform_vector3", result.out, v, out)
    /\ UNCHANGED <<value, hist, call, physics>>

QuaternionNext ==
    QuatTimes \/ QuatScale \/ QuatInverse \/ QuatRotate \/ QuatSlerp

QuaternionSpec == QuaternionInit /\ [][QuaternionNext]_vars

\* The same caller with normalize and the conversions to and from Matrix4
\* in place of slerp.
RotationNext ==
    \/ QuatTimes \/ QuatScale \/ QuatInverse \/ QuatRotate
    \/ QuatNormalize \/ QuatToMatrix \/ QuatFromMatrix \/ QuatTransform

\* The quaternions the caller constructs: the identity, the zero quaternion
\* and one of length 5e-11.
QStarts ==
    { QIdentity,
      Quaternion(SZero, SZero, SZero, SZero),
      Quaternion(Sci(3, 1, -11), SZero, Sci(4, 1, -11), SZero) }

RotationInit ==
    /\ value \in QStarts
    /\ result = NoResult
    /\ call = Call("none", 0, Zero, Zero)
    /\ hist = <<>>
    /\ entities = <<>>
    /\ pre = <<>>
    /\ start = <<>>
    /\ log = NoLog

RotationSpec == RotationInit /\ [][RotationNext]_vars

--------------------------------------------------------------------------
\* A vector in the hands of a caller: created, scaled, normalized and
\* divided, through the struct helpers and through the classes.

VecStarts ==
    { Vector2(SI(1), SZero),
      Vector2(SI(3), SI(4)),
      Vector2(SZero, SZero),
      Vector3(SI(1), SI(2), SI(2)),
      Vector3(SZero, SZero, SI(-3)),
      Vector3(SZero, SZero, SZero),
      Vector4(SI(1), SI(1), SI(1), SI(1)),
      Vector4(SZero, SI(-2), SZero, SZero) }

VecScalars == { SI(2), Sci(-1, 2, 0), Sci(1, 1, -3), Sci(1, 1, -6) }

DivScalars == { SZero, SI(2), Sci(1, 1, -3) }

\* The normalize operations there are for a vector of this dimension.
NormalizeOps(v) ==
    { "vecN_normalize", "Vector_normalize" } \cup
    (IF Dim(v) = 2 THEN { "vec_normalize" } ELSE {})

NormalizeOf(op, v) ==
    CASE op = "vecN_normalize" -> vecN_normalize(v)
      [] op = "Vector_normalize" -> Vector_normalize(v)
      [] op = "vec_normalize" -> vec_normalize(v)

DivideOps == { "vecN_div", "Vector_truediv", "Vector_truediv_py" }

DivideOf(op, v, scalar) ==
    CASE op = "vecN_div" -> vecN_div(v, scalar)
      [] op = "Vector_truediv" -> Vector_truediv(v, scalar)
      [] op = "Vector_truediv_py" -> Vector_truediv_py(v, scalar)

VectorInit ==
    /\ value \in VecStarts
    /\ result = NoResult
    /\ call = Call("none", 0, Zero, Zero)
    /\ hist = <<>>
    /\ entities = <<>>
    /\ pre = <<>>
    /\ start = <<>>
    /\ log = NoLog

VecTimes ==
    \E s \in VecScalars :
        /\ Len(hist) < MaxSteps
        /\ value' = vec_mul(value, s)
        /\ NumVector(value')
        /\ result' = Result("mul", value, s, value')
        /\ hist' = Append(hist, "mul")
        /\ UNCHANGED <<call, physics>>

\* normalize gives a new vector and leaves its operand as it is.
VecNormalize ==
    \E op \in NormalizeOps(value) :
        \E out \in { NormalizeOf(op, value) } :
            /\ NumVector(out)
            /\ result' = Result(op, value, <<>>, out)
            /\ UNCHANGED <<value, hist, call, physics>>

VecDivide ==
    \E op \in DivideOps, s \in DivScalars :
        \E out \in { DivideOf(op, value, s) } :
            /\ out.raised = "" => NumVector(out.value)
            /\ result' = Result(op, value, s, out)
            /\ UNCHANGED <<value, hist, call, physics>>

VectorNext == VecTimes \/ VecNormalize \/ VecDivide

VectorSpec == VectorInit /\ [][VectorNext]_vars

--------------------------------------------------------------------------
\* Vocabulary of the properties.

Resolved == call.name = "resolve_collisions"
Updated == call.name = "update_positions"
N == Len(entities)

SameMotion(a, b) == a.x = b.x /\ a.y = b.y /\ a.vx = b.vx /\ a.vy = b.vy

\* Both active and squared centre distance <= (radius1 + radius2)^2.
Overlap(a, b) ==
    a.active /\ b.active
    /\ check_collision(a.x, a.y, a.radius, b.x, b.y, b.radius)

\* The circles of a and b meet, whatever the active flags.
Meet(a, b) == check_collision(a.x, a.y, a.radius, b.x, b.y, b.radius)

HandledPairs == { log.handled[k] : k \in 1..Len(log.handled) }

\* C1: when no two active entities of the list overlap, a resolve_collisions
\* pass leaves x, y, vx and vy of every entity as they were.
C1_NoOverlapNoChange ==
    (Resolved /\ \A i, j \in 1..N : i < j => ~Overlap(pre[i], pre[j]))
        => \A i \in 1..N : SameMotion(entities[i], pre[i])

\* A pass over a list with two moving active entities, none overlapping.
C1_Witness ==
    /\ Resolved
    /\ \A i, j \in 1..N : i < j => ~Overlap(pre[i], pre[j])
    /\ \E i, j \in 1..N :
          /\ i < j /\ pre[i].active /\ pre[j].active
          /\ pre[i].vx # Zero /\ pre[j].vx # Zero
    /\ Len(log.tested) >= 3

\* C2 as claimed: a pass changes no inactive entity, and leaves unchanged
\* every active entity that overlaps an inactive entity and no active one.
C2_OnlyInactiveOverlapUnchanged ==
    Resolved =>
        \A i \in 1..N :
            /\ ~pre[i].active => entities[i] = pre[i]
            /\ ( /\ pre[i].active
                 /\ \E j \in 1..N : j # i /\ ~pre[j].active
                                          /\ Meet(pre[i], pre[j])
                 /\ \A j \in 1..N : j # i /\ Meet(pre[i], pre[j])
                                          => ~pre[j].active )
               => entities[i] = pre[i]

\* C2 amended: a pass changes no inactive entity and neither tests nor handles
\* a pair with an inactive member; an active entity changes only through a
\* handled pair whose two members are active and overlapped when tested.
C2_InactiveExcluded ==
    Resolved =>
        /\ \A i \in 1..N : ~pre[i].active => entities[i] = pre[i]
        /\ \A k \in 1..Len(log.tested) :
              pre[log.tested[k][1]].active /\ pre[log.tested[k][2]].active
        /\ \A h \in HandledPairs : Overlap(h.b1, h.b2)
        /\ \A i \in 1..N :
              entities[i] # pre[i] => \E h \in HandledPairs : i \in {h.i, h.j}

\* A pass over a list in which an active entity overlaps an inactive one.
C2_Witness ==
    /\ Resolved
    /\ \E i, j \in 1..N :
          /\ pre[i].active /\ ~pre[j].active /\ Meet(pre[i], pre[j])
          /\ pre[j].vx # Zero
          /\ entities[i] = pre[i]
    /\ Len(log.handled) >= 1

\* The pairs i < j of active entities, in the set the broad scan covers.
ActivePairs == { p \in (1..N) \X (1..N) : p[1] < p[2] /\ pre[p[1]].active
                                                    /\ pre[p[2]].active }

Before(p, q) == p[1] < q[1] \/ (p[1] = q[1] /\ p[2] < q[2])

\* C3: one pass tests the pairs i < j of active entities in ascending i, then
\* ascending j, each exactly once, and handles them in that order.
C3_AscendingPairOrder ==
    Resolved =>
        /\ \A k \in 1..Len(log.tested) : log.tested[k] \in ActivePairs
        /\ \A k \in 2..Len(log.tested) :
              Before(log.tested[k - 1], log.tested[k])
        /\ { log.tested[k] : k \in 1..Len(log.tested) } = ActivePairs
        /\ \A k \in 2..Len(log.handled) :
              Before(<<log.handled[k - 1].i, log.handled[k - 1].j>>,
                     <<log.handled[k].i, log.handled[k].j>>)

\* Three bodies that all overlap at once: three pairs tested, two handled.
C3_Witness ==
    /\ Resolved
    /\ N = 3
    /\ \A i, j \in 1..N : i < j => Overlap(pre[i], pre[j])
    /\ Len(log.tested) = 3
    /\ Len(log.handled) >= 2

\* a = b, for numbers of the number domain.
Same(a, b) == (IsNum(a) /\ IsNum(b)) => a = b

\* A handled pair: the vector between the centres before the call, its
\* squared length, and products of a velocity with it.
DX(h) == RSub(h.b2.x, h.b1.x)
DY(h) == RSub(h.b2.y, h.b1.y)
DSq(h) == RAdd(RMul(DX(h), DX(h)), RMul(DY(h), DY(h)))
NonDegenerate(h) == RGe(DSq(h), DegenerateSq)
Massive(e) == RGt(e.mass, Zero)
Along(e, h) == RAdd(RMul(e.vx, DX(h)), RMul(e.vy, DY(h)))
Across(e, h) == RSub(RMul(e.vx, DY(h)), RMul(e.vy, DX(h)))
SpeedSq(e) == RAdd(RMul(e.vx, e.vx), RMul(e.vy, e.vy))
RadiusSumSq(h) ==
    RMul(RAdd(h.b1.radius, h.b2.radius), RAdd(h.b1.radius, h.b2.radius))
CentreDistSq(a, b) ==
    RAdd(RMul(RSub(b.x, a.x), RSub(b.x, a.x)),
         RMul(RSub(b.y, a.y), RSub(b.y, a.y)))

\* C4: after a non-degenerate pair of two massive entities is handled, the
\* distance between the centres is radius1 + radius2.
C4_OverlapResolvedExactly ==
    \A h \in HandledPairs :
        (Massive(h.b1) /\ Massive(h.b2) /\ NonDegenerate(h))
            => Same(CentreDistSq(h.a1, h.a2), RadiusSumSq(h))

\* Two massive entities of unequal mass, overlapping off the axes.
C4_Witness ==
    \E h \in HandledPairs :
        /\ Massive(h.b1) /\ Massive(h.b2) /\ NonDegenerate(h)
        /\ h.b1.mass # h.b2.mass
        /\ DX(h) # Zero /\ DY(h) # Zero
        /\ RLt(DSq(h), RadiusSumSq(h))

Approaching(h) == RLe(RSub(Along(h.b2, h), Along(h.b1, h)), Zero)

\* C5: for an approaching non-degenerate pair of two massive entities the
\* relative velocity along the normal becomes -restitution times what it
\* was; the velocity across the normal is kept; with equal masses and
\* restitution 1 the two swap their velocity along the normal.
C5_ImpulseReversesNormalVelocity ==
    \A h \in HandledPairs :
        (Massive(h.b1) /\ Massive(h.b2) /\ NonDegenerate(h) /\ Approaching(h))
            => /\ Same(RSub(Along(h.a2, h), Along(h.a1, h)),
                       RMul(RNeg(h.coef),
                            RSub(Along(h.b2, h), Along(h.b1, h))))
               /\ Same(Across(h.a1, h), Across(h.b1, h))
               /\ Same(Across(h.a2, h), Across(h.b2, h))
               /\ (h.b1.mass = h.b2.mass /\ h.coef = One)
                    => /\ Same(Along(h.a1, h), Along(h.b2, h))
                       /\ Same(Along(h.a2, h), Along(h.b1, h))

\* The head-on case: A at (0,0) with v = (1,0), B at (1.5,0) with v = (-1,0),
\* equal masses, restitution 1; after the pair A.vx = -1 and B.vx = 1.
C5_Witness ==
    \E h \in HandledPairs :
        /\ h.coef = One /\ h.b1.mass = One /\ h.b2.mass = One
        /\ h.b1.x = Zero /\ h.b2.x = F(3, 2) /\ DY(h) = Zero
        /\ h.b1.vx = One /\ h.b2.vx = I(-1)
        /\ h.a1.vx = I(-1) /\ h.a2.vx = One

OneMassive(h) == Massive(h.b1) # Massive(h.b2)
MovableBefore(h) == IF Massive(h.b1) THEN h.b1 ELSE h.b2
MovableAfter(h) == IF Massive(h.b1) THEN h.a1 ELSE h.a2
FixedBefore(h) == IF Massive(h.b1) THEN h.b2 ELSE h.b1
FixedAfter(h) == IF Massive(h.b1) THEN h.a2 ELSE h.a1

\* C6: in a non-degenerate pair with one massive member, the massive one
\* leaves with restitution * (v - 2*(v.n)*n): its velocity along the normal
\* is -restitution times what it was and its speed restitution times what
\* it was, in either list position.
C6_ReflectionOffImmovable ==
    \A h \in HandledPairs :
        (OneMassive(h) /\ NonDegenerate(h)) =>
            LET v == MovableBefore(h)
                w == MovableAfter(h)
                k == RDiv(RMul(Two, Along(v, h)), DSq(h))
            IN  /\ Same(w.vx, RMul(h.coef, RSub(v.vx, RMul(k, DX(h)))))
                /\ Same(w.vy, RMul(h.coef, RSub(v.vy, RMul(k, DY(h)))))
                /\ Same(Along(w, h), RMul(RNeg(h.coef), Along(v, h)))
                /\ Same(SpeedSq(w), RMul(RMul(h.coef, h.coef), SpeedSq(v)))

\* One pass in which a massive entity meets an immovable one from the first
\* list position and another from the second, both moving along the normal.
C6_Witness ==
    \E h1, h2 \in HandledPairs :
        /\ NonDegenerate(h1) /\ Massive(h1.b1) /\ ~Massive(h1.b2)
        /\ NonDegenerate(h2) /\ ~Massive(h2.b1) /\ Massive(h2.b2)
        /\ Along(h1.b1, h1) # Zero /\ Along(h2.b2, h2) # Zero
        /\ h1.coef = F(4, 5)

\* C7 as claimed: whenever a handled pair has exactly one massive member, the
\* other member keeps its position and velocity.
C7_ImmovableNeverDisplaced ==
    \A h \in HandledPairs :
        OneMassive(h) => SameMotion(FixedAfter(h), FixedBefore(h))

\* C7 amended: whenever a handled pair with squared distance >= 0.0001 has
\* exactly one massive member, the other member keeps its position and
\* velocity, and the massive member is the one displaced.
C7_ImmovableKeptWhenNotDegenerate ==
    \A h \in HandledPairs :
        (OneMassive(h) /\ NonDegenerate(h)) =>
            /\ SameMotion(FixedAfter(h), FixedBefore(h))
            /\ RLt(DSq(h), RadiusSumSq(h))
                 => ~SameMotion(MovableAfter(h), MovableBefore(h))

\* A moving immovable entity overlapped by a massive one, not degenerate.
C7_Witness ==
    \E h \in HandledPairs :
        /\ OneMassive(h) /\ NonDegenerate(h)
        /\ RLt(DSq(h), RadiusSumSq(h))
        /\ FixedBefore(h).vx # Zero
        /\ MovableAfter(h).x # MovableBefore(h).x

RECURSIVE Power(_, _)
Power(a, n) == IF n = 0 THEN One ELSE RMul(a, Power(a, n - 1))

OnlyUpdates == \A k \in 1..Len(hist) : hist[k] = "update_positions"

\* C8: update_positions moves every active entity by its velocity before
\* damping times dt and multiplies both velocity components by 0.999 once;
\* after n calls and nothing else the velocity is 0.999^n times the first.
C8_UpdateStep ==
    /\ Updated =>
          \A i \in 1..N : pre[i].active =>
              /\ Same(entities[i].x, RAdd(pre[i].x, RMul(pre[i].vx, call.p)))
              /\ Same(entities[i].y, RAdd(pre[i].y, RMul(pre[i].vy, call.p)))
              /\ Same(RMul(I(1000), entities[i].vx), RMul(I(999), pre[i].vx))
              /\ Same(RMul(I(1000), entities[i].vy), RMul(I(999), pre[i].vy))
    /\ OnlyUpdates =>
          \A i \in 1..N : start[i].active =>
              /\ Same(entities[i].vx,
                      RMul(Power(Drag, Len(hist)), start[i].vx))
              /\ Same(entities[i].vy,
                      RMul(Power(Drag, Len(hist)), start[i].vy))

\* Two calls in a row on an entity that started with v = (10, 0): 9.99 after
\* the first call.
C8_Witness ==
    /\ Len(hist) = 2 /\ OnlyUpdates
    /\ \E i \in 1..N :
          /\ start[i].active /\ start[i].vx = I(10) /\ start[i].vy = Zero
          /\ pre[i].vx = F(999, 100)
          /\ entities[i].x # pre[i].x

\* C9: update_positions changes no field of an inactive entity.
C9_InactiveSkipped ==
    Updated => \A i \in 1..N : ~pre[i].active => entities[i] = pre[i]

\* A call on a list with a moving inactive entity and an active one that moves.
C9_Witness ==
    /\ Updated
    /\ \E i, j \in 1..N :
          /\ ~pre[i].active /\ (pre[i].vx # Zero \/ pre[i].vy # Zero)
          /\ pre[j].active /\ entities[j].x # pre[j].x

\* C10 as claimed: apply_force and apply_torque change nothing of an entity
\* whose mass is <= 0, and apply_force adds force/mass to the velocity of an
\* entity whose mass is > 0.
C10_NoOpForNonPositiveMass ==
    /\ (call.name \in {"apply_force", "apply_torque"}
          /\ RLe(pre[call.i].mass, Zero)) => entities = pre
    /\ (call.name = "apply_force" /\ RGt(pre[call.i].mass, Zero)) =>
          /\ entities[call.i].vx =
                RAdd(pre[call.i].vx, RDiv(call.p, pre[call.i].mass))
          /\ entities[call.i].vy =
                RAdd(pre[call.i].vy, RDiv(call.q, pre[call.i].mass))

\* C11 as claimed: after apply_torque on an entity of mass > 0 the rotation
\* is in [0, 2*pi), and a sum of exactly 2*pi is mapped to 0.
C11_RotationInRange ==
    (call.name = "apply_torque" /\ RGt(pre[call.i].mass, Zero)) =>
        /\ DGe(entities[call.i].rotation, DZero)
        /\ DLt(entities[call.i].rotation, TwoPi)
        /\ DAdd(pre[call.i].rotation,
                DDivMass(call.p, pre[call.i].mass)) = TwoPi
             => entities[call.i].rotation = DZero

\* The last call was inverse(), on the matrix result.self.
Inverted == result.op = "inverse"

\* C12: inverse() raises and gives no matrix whenever |determinant()| < 1e-10,
\* and gives a matrix of 16 cells without raising whenever it is >= 1e-10.
C12_InverseRaisesIffSingular ==
    Inverted =>
        LET det == determinant(result.self)
        IN  /\ SLt(SAbs(det), Eps10)
                => result.out = Raised("ValueError")
            /\ SGe(SAbs(det), Eps10)
                => /\ result.out.raised = ""
                   /\ Len(result.out.value) = 16
                   /\ NumMatrix(result.out.value)

\* inverse() raised on a matrix whose determinant is below 0, not 0 and
\* above -1e-10.
C12_Witness ==
    /\ Inverted
    /\ result.out.raised = "ValueError"
    /\ SLt(determinant(result.self), SZero)

\* inverse() gave a matrix for a determinant of exactly 1e-10, and for one
\* below -1e-10.
C12_WitnessReturned ==
    /\ Inverted
    /\ result.out.raised = ""
    /\ determinant(result.self) \in { Eps10, Sci(-6, 10, 0) }

\* a = b, for numbers of the number domain.
SameS(a, b) == (IsS(a) /\ IsS(b)) => a = b

\* C13: for every matrix M that inverse() accepts, M * M.inverse() and
\* M.inverse() * M are the identity in each of the 16 cells, and M times the
\* adjugate (the inverse times the determinant) is determinant * identity.
C13_InverseTimesSelfIsIdentity ==
    (Inverted /\ result.out.raised = "") =>
        LET M == result.self
            inv == result.out.value
            det == determinant(M)
        IN  \A c \in 1..16 :
                /\ SameS(MatMul(M, inv)[c], Matrix4[c])
                /\ SameS(MatMul(inv, M)[c], Matrix4[c])
                /\ SameS(MatMul(M, MatScale(inv, det))[c],
                         MatScale(Matrix4, det)[c])

\* The inverse of a matrix with at least 12 cells that are not 0 and a
\* determinant other than 1 and -1, every cell of the product a number.
C13_Witness ==
    /\ Inverted /\ result.out.raised = ""
    /\ Cardinality({ c \in 1..16 : result.self[c] # SZero }) >= 12
    /\ Cardinality({ c \in 1..16 : result.out.value[c] # SZero }) >= 12
    /\ SAbs(determinant(result.self)) # SOne
    /\ NumMatrix(MatMul(result.self, result.out.value))
    /\ MatMul(result.self, result.out.value) = Matrix4

--------------------------------------------------------------------------
\* A unit quaternion: x*x + y*y + z*z + w*w is exactly 1.
IsUnit(q) == NumQuaternion(q) /\ quat_length_sq(q) = SOne

\* C14: for a unit quaternion q and a vector v, rotating v with q.inverse()
\* and rotating the outcome with q gives v again, in all three components.
C14_RotateInverseRoundTrip ==
    IsUnit(value) =>
        \A v \in Vectors :
            \A q_inv \in { quat_inverse(value) } :
                \A back \in { rotate_vector3(q_inv, v) } :
                    \A out \in { rotate_vector3(value, back) } :
                        NumVector3(out) => out = v

\* A unit quaternion with three components that are not 0 has rotated the
\* vector its inverse gave for a vector that it moves, and returned that
\* vector.
C14_Witness ==
    /\ IsUnit(value)
    /\ Cardinality({ c \in { "x", "y", "z", "w" } : ~IsSZero(value[c]) }) >= 3
    /\ result.op = "rotate_vector3"
    /\ result.self = value
    /\ \E v \in Vectors :
        /\ result.arg = rotate_vector3(quat_inverse(value), v)
        /\ result.arg # v
        /\ result.out = v

--------------------------------------------------------------------------
\* The last call was a normalize on a vector of squared length <= 1e-10.
NormalizedSmall ==
    /\ result.op \in { "vecN_normalize", "Vector_normalize", "vec_normalize" }
    /\ SLe(length_squared(result.self), Eps10)

C15_WitnessSqrt ==
    /\ NormalizedSmall
    /\ result.op = "Vector_normalize"
    /\ Dim(result.self) = 3
    /\ length_squared(result.out) = SOne

\* The last call was a division of a vector by the number 0.
DividedByZero ==
    /\ result.op \in { "vecN_div", "Vector_truediv", "Vector_truediv_py" }
    /\ result.arg = SZero

--------------------------------------------------------------------------
\* The last call was slerp(a, b, t) on two unit quaternions.
SlerpA == result.self
SlerpB == result.arg[1]
SlerpT == result.arg[2]
SlerpedUnits ==
    /\ result.op = "slerp"
    /\ IsUnit(SlerpA)
    /\ IsUnit(SlerpB)

Dot(a, b) ==
    Sum4(SMul(a.x, b.x), SMul(a.y, b.y), SMul(a.z, b.z), SMul(a.w, b.w))

Negated(q) == Quaternion(SNeg(q.x), SNeg(q.y), SNeg(q.z), SNeg(q.w))

\* b, negated when dot(a, b) < 0.
Nearest(a, b) == IF SLt(Dot(a, b), SZero) THEN Negated(b) ELSE b

\* a * (1 - t) + b * t, component by component.
Lerp(a, b, t) ==
    Quaternion(SAdd(SMul(a.x, SSub(SOne, t)), SMul(b.x, t)),
               SAdd(SMul(a.y, SSub(SOne, t)), SMul(b.y, t)),
               SAdd(SMul(a.z, SSub(SOne, t)), SMul(b.z, t)),
               SAdd(SMul(a.w, SSub(SOne, t)), SMul(b.w, t)))

Clamped(t) == IF SLt(t, SZero) THEN SZero ELSE IF SGt(t, SOne) THEN SOne ELSE t

\* C17: for unit quaternions a and b, slerp(a, b, t) is a for every t <= 0
\* and, for every t >= 1, b or -b (-b exactly when dot(a, b) < 0), so t is
\* clamped to [0, 1]; slerp(a, a, t) is a for every t; and when
\* sin(theta) < 1e-6 the outcome is the normalized linear interpolation.
C17_SlerpEndpoints ==
    SlerpedUnits =>
        /\ SLe(SlerpT, SZero) => result.out = SlerpA
        /\ SGe(SlerpT, SOne) => result.out = Nearest(SlerpA, SlerpB)
        /\ SlerpA = SlerpB => result.out = SlerpA
        /\ SLt(sin(acos(SAbs(Dot(SlerpA, SlerpB)))), Eps6) =>
               result.out = quat_normalize(Lerp(SlerpA,
                                                Nearest(SlerpA, SlerpB),
                                                Clamped(SlerpT)))

\* slerp with t = 2 between two unit quaternions of negative dot product,
\* not opposite to each other, gave -b.
C17_Witness ==
    /\ SlerpedUnits
    /\ SlerpT = STwo
    /\ SLt(Dot(SlerpA, SlerpB), SZero)
    /\ Dot(SlerpA, SlerpB) # SI(-1)
    /\ result.out = Negated(SlerpB)
    /\ result.out # SlerpA

\* slerp with t = 1/2 between a unit quaternion and its negation took the
\* linear interpolation and gave a.
C17_WitnessLerp ==
    /\ SlerpedUnits
    /\ SlerpT = Sci(1, 2, 0)
    /\ SlerpB = Negated(SlerpA)
    /\ result.out = SlerpA

--------------------------------------------------------------------------
\* The pairs the narrow test of the last pass let go.
MissedPairs == { log.missed[k] : k \in 1..Len(log.missed) }

\* (radius1 + radius2)^2 of two entities.
ReachSq(a, b) == RMul(RAdd(a.radius, b.radius), RAdd(a.radius, b.radius))

\* C18: check_collision is true exactly when the squared centre distance is
\* <= (radius1 + radius2)^2, touching included, and it is the same with the
\* two circles swapped; one resolve_collisions pass handles a pair of active
\* entities exactly when check_collision is true of the two as the pass
\* finds them.
C18_CollidesIffWithinRadii ==
    /\ \A i, j \in 1..N :
          LET a == entities[i]
              b == entities[j]
          IN  (IsNum(CentreDistSq(a, b)) /\ IsNum(ReachSq(a, b))) =>
                  /\ Meet(a, b) <=> RLe(CentreDistSq(a, b), ReachSq(a, b))
                  /\ CentreDistSq(a, b) = ReachSq(a, b) => Meet(a, b)
                  /\ Meet(a, b) <=> Meet(b, a)
    /\ Resolved =>
          /\ \A h \in HandledPairs : Meet(h.b1, h.b2) /\ Meet(h.b2, h.b1)
          /\ \A m \in MissedPairs : ~Meet(m.b1, m.b2) /\ ~Meet(m.b2, m.b1)
          /\ { <<h.i, h.j>> : h \in HandledPairs }
                 \cup { <<m.i, m.j>> : m \in MissedPairs } = ActivePairs
          /\ { <<h.i, h.j>> : h \in HandledPairs }
                 \cap { <<m.i, m.j>> : m \in MissedPairs } = {}

\* A pass has handled a pair of circles that exactly touch and has let go a
\* pair that is apart.
C18_Witness ==
    /\ Resolved
    /\ \E h \in HandledPairs :
          /\ CentreDistSq(h.b1, h.b2) = ReachSq(h.b1, h.b2)
          /\ RGt(CentreDistSq(h.b1, h.b2), Zero)
    /\ \E m \in MissedPairs : RGt(CentreDistSq(m.b1, m.b2), ReachSq(m.b1, m.b2))

--------------------------------------------------------------------------
\* The pair was handled by the degenerate branch.
Degenerate(h) == RLt(DSq(h), DegenerateSq)

\* The degenerate branch moved entity1 by -0.1 and entity2 by +0.1 along x
\* and changed nothing else.
Nudged(h) ==
    /\ h.a1 = [h.b1 EXCEPT !.x = RSub(h.b1.x, Nudge)]
    /\ h.a2 = [h.b2 EXCEPT !.x = RAdd(h.b2.x, Nudge)]

\* The pairs the pass after this step tests, as it finds them.
TestedNext ==
    { log'.handled[k] : k \in 1..Len(log'.handled) }
        \cup { log'.missed[k] : k \in 1..Len(log'.missed) }

\* C19 as stated: a colliding pair of active entities with a squared centre
\* distance < 1e-4 is not resolved physically: the entity of the lower index
\* moves by -0.1 along x, the other by +0.1, y, vx and vy of both stay, and
\* when the pair is next tested its squared distance is >= 1e-4.
C19_NudgeKeepsApart ==
    [][ Resolved =>
          \A h \in HandledPairs :
              Degenerate(h) =>
                  /\ Nudged(h)
                  /\ call'.name = "resolve_collisions" /\ hist' # hist =>
                        \A t \in TestedNext :
                            (t.i = h.i /\ t.j = h.j) =>
                                RGe(CentreDistSq(t.b1, t.b2), DegenerateSq)
      ]_vars

\* C19 as amended: ... and right after the pair is handled its squared
\* distance is >= 1e-4.
C19_NudgeApart ==
    Resolved =>
        \A h \in HandledPairs :
            Degenerate(h) =>
                /\ Nudged(h)
                /\ RGe(CentreDistSq(h.a1, h.a2), DegenerateSq)

\* A pass has handled a pair of centres that are close and not the same.
C19_Witness ==
    /\ Resolved
    /\ \E h \in HandledPairs :
          /\ Degenerate(h)
          /\ RGt(DSq(h), Zero)
          /\ Nudged(h)

--------------------------------------------------------------------------
\* The displacement of each entity of a handled pair.
Move1X(h) == RSub(h.a1.x, h.b1.x)
Move1Y(h) == RSub(h.a1.y, h.b1.y)
Move2X(h) == RSub(h.a2.x, h.b2.x)
Move2Y(h) == RSub(h.a2.y, h.b2.y)
Move1Sq(h) == RAdd(RMul(Move1X(h), Move1X(h)), RMul(Move1Y(h), Move1Y(h)))
Move2Sq(h) == RAdd(RMul(Move2X(h), Move2X(h)), RMul(Move2Y(h), Move2Y(h)))
OverlapOf(h) == RSub(RAdd(h.b1.radius, h.b2.radius), sqrt(DSq(h)))
Share(m, h) == RDiv(m, RAdd(h.b1.mass, h.b2.mass))

\* C20: in a non-degenerate handled pair of two entities of mass > 0,
\* entity1 moves by overlap * mass2 / (mass1 + mass2) against the normal and
\* entity2 by overlap * mass1 / (mass1 + mass2) along it; displacement1 *
\* mass1 is displacement2 * mass2, and the heavier entity does not move
\* farther than the lighter one.
C20_MassSharedCorrection ==
    Resolved =>
        \A h \in HandledPairs :
            (NonDegenerate(h) /\ Massive(h.b1) /\ Massive(h.b2)) =>
                LET len == sqrt(DSq(h))
                    d1 == RMul(OverlapOf(h), Share(h.b2.mass, h))
                    d2 == RMul(OverlapOf(h), Share(h.b1.mass, h))
                IN  /\ Same(RMul(Move1X(h), len), RNeg(RMul(d1, DX(h))))
                    /\ Same(RMul(Move1Y(h), len), RNeg(RMul(d1, DY(h))))
                    /\ Same(RMul(Move2X(h), len), RMul(d2, DX(h)))
                    /\ Same(RMul(Move2Y(h), len), RMul(d2, DY(h)))
                    /\ Same(RMul(d1, h.b1.mass), RMul(d2, h.b2.mass))
                    /\ Same(RMul(Move1X(h), h.b1.mass),
                            RNeg(RMul(Move2X(h), h.b2.mass)))
                    /\ Same(RMul(Move1Y(h), h.b1.mass),
                            RNeg(RMul(Move2Y(h), h.b2.mass)))
                    /\ (IsNum(Move1Sq(h)) /\ IsNum(Move2Sq(h))) =>
                           /\ RGe(h.b1.mass, h.b2.mass) =>
                                  RLe(Move1Sq(h), Move2Sq(h))
                           /\ RGe(h.b2.mass, h.b1.mass) =>
                                  RLe(Move2Sq(h), Move1Sq(h))

\* A pass has handled an overlapping pair of unequal positive masses, off the
\* x axis, and the heavier entity has moved, less far than the lighter one.
C20_Witness ==
    /\ Resolved
    /\ \E h \in HandledPairs :
          /\ NonDegenerate(h) /\ Massive(h.b1) /\ Massive(h.b2)
          /\ RGt(h.b2.mass, h.b1.mass)
          /\ RGt(OverlapOf(h), Zero)
          /\ DY(h) # Zero /\ DX(h) # Zero
          /\ RGt(Move2Sq(h), Zero)
          /\ RLt(Move2Sq(h), Move1Sq(h))

--------------------------------------------------------------------------
\* The velocities of the pair are moving the centres apart: the relative
\* velocity along the normal is > 0.
Separating(h) == RGt(RSub(Along(h.b2, h), Along(h.b1, h)), Zero)
SameVelocity(a, b) == a.vx = b.vx /\ a.vy = b.vy

\* C21: when a non-degenerate handled pair of two entities of mass > 0 is
\* already separating along the normal, vx and vy of both entities are left
\* as they were, and the positional correction is applied all the same: each
\* entity is moved by its share of the overlap along the normal.
C21_SeparatingNoImpulse ==
    Resolved =>
        \A h \in HandledPairs :
            ( /\ NonDegenerate(h) /\ Massive(h.b1) /\ Massive(h.b2)
              /\ Separating(h) ) =>
                \A len \in { sqrt(DSq(h)) } :
                \A d1 \in { RMul(OverlapOf(h), Share(h.b2.mass, h)) } :
                \A d2 \in { RMul(OverlapOf(h), Share(h.b1.mass, h)) } :
                    /\ SameVelocity(h.a1, h.b1)
                    /\ SameVelocity(h.a2, h.b2)
                    /\ Same(RMul(Move1X(h), len), RNeg(RMul(d1, DX(h))))
                    /\ Same(RMul(Move1Y(h), len), RNeg(RMul(d1, DY(h))))
                    /\ Same(RMul(Move2X(h), len), RMul(d2, DX(h)))
                    /\ Same(RMul(Move2Y(h), len), RMul(d2, DY(h)))

\* A pass has handled an overlapping pair of massive entities that move
\* apart: both keep their velocity and both have been moved.
C21_Witness ==
    /\ Resolved
    /\ \E h \in HandledPairs :
          /\ NonDegenerate(h) /\ Massive(h.b1) /\ Massive(h.b2)
          /\ Separating(h)
          /\ RGt(OverlapOf(h), Zero)
          /\ h.b1.vx # Zero /\ h.b2.vx # Zero
          /\ SameVelocity(h.a1, h.b1) /\ SameVelocity(h.a2, h.b2)
          /\ h.a1.x # h.b1.x /\ h.a2.x # h.b2.x

--------------------------------------------------------------------------
\* C22 as stated: for the quaternion q (never zero here), every scalar k > 0
\* and every vector v, (q * k).rotate_vector3(v) is q.rotate_vector3(v) and
\* (q * k).to_rotation_matrix() is q.to_rotation_matrix(); and a vector that
\* rotate_vector3 returns has the length of the vector it was given.
C22_RotationOnNormalizedCopy ==
    /\ \A k \in QScalars :
          \A scaled \in { quat_scale(value, k) } :
              /\ \A v \in Vectors :
                    \A a \in { rotate_vector3(scaled, v) } :
                    \A b \in { rotate_vector3(value, v) } :
                        (NumVector3(a) /\ NumVector3(b)) => a = b
              /\ \A m \in { to_rotation_matrix(scaled) } :
                 \A n \in { to_rotation_matrix(value) } :
                     (NumMatrix(m) /\ NumMatrix(n)) => m = n
    /\ result.op = "rotate_vector3" =>
          \A before \in { length_squared(result.arg) } :
          \A after \in { length_squared(result.out) } :
              (IsS(before) /\ IsS(after)) => after = before

--------------------------------------------------------------------------
\* C23: for the unit quaternion a held, every unit quaternion b and every
\* vector v, (a * b).rotate_vector3(v) is a.rotate_vector3(b.rotate_vector3(v)):
\* the product applies the rotation of its right operand first.
C23_ProductRotatesRightFirst ==
    IsUnit(value) =>
        \A b \in QFactors : \A v \in Vectors :
            \A ab \in { quat_mul(value, b) } :
            \A inner \in { rotate_vector3(b, v) } :
            \A composed \in { rotate_vector3(value, inner) } :
            \A out \in { rotate_vector3(ab, v) } :
                (NumVector3(out) /\ NumVector3(composed)) => out = composed

\* The quaternion held is the product a * b of two unit quaternions that do
\* not commute, and applying a first gives another vector than applying b
\* first, which is what a * b does.
C23_Witness ==
    /\ result.op = "mul"
    /\ IsUnit(result.self) /\ result.arg \in QFactors
    /\ value = quat_mul(result.self, result.arg)
    /\ quat_mul(result.arg, result.self) # value
    /\ \E v \in Vectors :
          /\ NumVector3(rotate_vector3(value, v))
          /\ rotate_vector3(value, v)
                = rotate_vector3(result.self, rotate_vector3(result.arg, v))
          /\ rotate_vector3(value, v)
                # rotate_vector3(result.arg, rotate_vector3(result.self, v))

--------------------------------------------------------------------------
\* A positive multiple of the identity: the only quaternions whose quotient
\* by their length is the identity.
OnIdentityAxis(q) ==
    q.x = SZero /\ q.y = SZero /\ q.z = SZero /\ SGt(q.w, SZero)

C24_WitnessInverse ==
    /\ result.op = "inverse"
    /\ result.self = value
    /\ value.x # SZero
    /\ SLt(quat_length_sq(value), Eps10)
    /\ SGe(quat_length(value), Eps10)
    /\ result.out = QIdentity

\* inverse() has returned the inverse of a quaternion that is not a unit
\* quaternion.
C24_WitnessInverted ==
    /\ result.op = "inverse"
    /\ result.self = value
    /\ value.x # SZero /\ ~IsUnit(value)
    /\ SGe(quat_length_sq(value), Eps10)
    /\ quat_mul(value, result.out) = QIdentity

--------------------------------------------------------------------------
\* Row r of the matrix m times (v.x, v.y, v.z, 1).
RowTimesPoint(m, r, v) ==
    SAdd(SAdd(SAdd(SMul(m[4 * r + 1], v.x), SMul(m[4 * r + 2], v.y)),
              SMul(m[4 * r + 3], v.z)),
         SMul(m[4 * r + 4], SOne))

Transformed == result.op = "transform_vector3"

\* C25: transform_vector3(v) multiplies the matrix with (x, y, z, 1); when
\* the w of the product is neither 0 nor 1 it returns x / w, y / w and z / w,
\* and when w is 0 or 1 it returns x, y and z as they are.
C25_PerspectiveDivide ==
    Transformed =>
        \A x \in { RowTimesPoint(result.self, 0, result.arg) } :
        \A y \in { RowTimesPoint(result.self, 1, result.arg) } :
        \A z \in { RowTimesPoint(result.self, 2, result.arg) } :
        \A w \in { RowTimesPoint(result.self, 3, result.arg) } :
            /\ NumVector3(result.out)
            /\ (w # SZero /\ w # SOne) =>
                  result.out = Vector3(SDiv(x, w), SDiv(y, w), SDiv(z, w))
            /\ (w = SZero \/ w = SOne) => result.out = Vector3(x, y, z)

\* A vector has been transformed by a matrix that gives it a w other than 0
\* and 1, and what came back is not the undivided product.
C25_Witness ==
    /\ Transformed
    /\ \E w \in { RowTimesPoint(result.self, 3, result.arg) } :
          /\ w # SZero /\ w # SOne
          /\ result.out.x # RowTimesPoint(result.self, 0, result.arg)
          /\ SMul(result.out.x, w) = RowTimesPoint(result.self, 0, result.arg)

\* A vector has been transformed by a matrix that gives it w = 0, and the
\* undivided product has come back.
C25_WitnessZero ==
    /\ Transformed
    /\ RowTimesPoint(result.self, 3, result.arg) = SZero
    /\ result.out.x # SZero
    /\ result.out.x = RowTimesPoint(result.self, 0, result.arg)

--------------------------------------------------------------------------
\* mass1 * v1 + mass2 * v2 of a handled pair, before and after, by component.
MomentumBeforeX(h) ==
    RAdd(RMul(h.b1.mass, h.b1.vx), RMul(h.b2.mass, h.b2.vx))
MomentumBeforeY(h) ==
    RAdd(RMul(h.b1.mass, h.b1.vy), RMul(h.b2.mass, h.b2.vy))
MomentumAfterX(h) ==
    RAdd(RMul(h.a1.mass, h.a1.vx), RMul(h.a2.mass, h.a2.vx))
MomentumAfterY(h) ==
    RAdd(RMul(h.a1.mass, h.a1.vy), RMul(h.a2.mass, h.a2.vy))

\* C26: handling a non-degenerate pair of two entities of mass > 0 keeps
\* mass1 * v1 + mass2 * v2 in both components, whatever the restitution.
C26_MomentumConserved ==
    Resolved =>
        \A h \in HandledPairs :
            (NonDegenerate(h) /\ Massive(h.b1) /\ Massive(h.b2)) =>
                /\ Same(MomentumAfterX(h), MomentumBeforeX(h))
                /\ Same(MomentumAfterY(h), MomentumBeforeY(h))

\* A pass has handled an approaching pair of unequal positive masses with
\* restitution 4/5, off the axes: both velocities have changed, in both
\* components, and the momentum is what it was.
C26_Witness ==
    /\ Resolved
    /\ \E h \in HandledPairs :
          /\ NonDegenerate(h) /\ Massive(h.b1) /\ Massive(h.b2)
          /\ h.b1.mass # h.b2.mass
          /\ h.coef = F(4, 5)
          /\ h.a1.vx # h.b1.vx /\ h.a2.vx # h.b2.vx
          /\ h.a1.vy # h.b1.vy /\ h.a2.vy # h.b2.vy
          /\ IsNum(MomentumAfterX(h)) /\ IsNum(MomentumAfterY(h))
          /\ MomentumAfterX(h) = MomentumBeforeX(h)
          /\ MomentumAfterY(h) = MomentumBeforeY(h)

--------------------------------------------------------------------------
\* Fields of entity k that the last call left as they were.
KeptPlace(k) == entities[k].x = pre[k].x /\ entities[k].y = pre[k].y
KeptVelocity(k) == entities[k].vx = pre[k].vx /\ entities[k].vy = pre[k].vy
KeptRotation(k) == entities[k].rotation = pre[k].rotation

\* C27: whatever calls have been made, every entity has the mass, the radius
\* and the active flag it was created with; a call other than apply_torque
\* leaves every rotation, a call other than update_positions and
\* resolve_collisions leaves every position, and apply_force changes nothing
\* but vx and vy of the entity it is given.
C27_FieldsChangedOnlyByTheirCalls ==
    \A k \in 1..N :
        /\ entities[k].mass = start[k].mass
        /\ entities[k].radius = start[k].radius
        /\ entities[k].active = start[k].active
        /\ call.name # "apply_torque" => KeptRotation(k)
        /\ call.name \notin { "update_positions", "resolve_collisions" } =>
              KeptPlace(k)
        /\ call.name = "apply_force" =>
              /\ KeptPlace(k) /\ KeptRotation(k)
              /\ k # call.i => KeptVelocity(k)

\* After a pass that moved an entity and changed its velocity, apply_torque
\* has turned an entity, and every mass, radius and active flag is as at the
\* start.
C27_Witness ==
    /\ hist = << "resolve_collisions", "apply_torque" >>
    /\ \E k \in 1..N : pre[k].x # start[k].x /\ pre[k].vx # start[k].vx
    /\ ~KeptRotation(call.i)
    /\ \A k \in 1..N : KeptPlace(k) /\ KeptVelocity(k)
    /\ \A k \in 1..N : entities[k].mass = start[k].mass

\* apply_force has changed the velocity of an entity that had been moved and
\* turned before.
C27_WitnessForce ==
    /\ Len(hist) = 2 /\ call.name = "apply_force"
    /\ ~KeptVelocity(call.i)
    /\ \E k \in 1..N : entities[k].rotation # start[k].rotation
                       \/ entities[k].x # start[k].x

--------------------------------------------------------------------------
\* The pairs of the last pass in the order they were tested, each with what
\* the pass recorded for it: the two entities as the narrow test saw them
\* and, for a handled pair, as the response left them.
SeenAt(k) ==
    CHOOSE s \in HandledPairs \cup MissedPairs :
        s.i = log.tested[k][1] /\ s.j = log.tested[k][2]
HandledAt(k) ==
    \E h \in HandledPairs : h.i = log.tested[k][1] /\ h.j = log.tested[k][2]

\* Entity e as the pairs tested before the k-th have left it: as the last
\* handled pair with e among them left it, or as it was before the pass.
CurrentAt(e, k) ==
    LET earlier == { n \in 1..(k - 1) :
                       HandledAt(n) /\ e \in { log.tested[n][1],
                                               log.tested[n][2] } }
        last == CHOOSE n \in earlier : \A o \in earlier : o <= n
    IN  IF earlier = {} THEN pre[e]
        ELSE IF SeenAt(last).i = e THEN SeenAt(last).a1
        ELSE SeenAt(last).a2

\* C28: in one pass the narrow test and the response of the k-th pair work
\* on both entities as all earlier pairs of the pass have left them, the
\* pair is handled exactly when those two meet, and the list after the pass
\* is what the last pairs have left.
C28_SequentialOnSharedState ==
    Resolved =>
        /\ \A k \in 1..Len(log.tested) :
              \A i \in { log.tested[k][1] } : \A j \in { log.tested[k][2] } :
              \A s \in { SeenAt(k) } :
                  /\ s.b1 = CurrentAt(i, k)
                  /\ s.b2 = CurrentAt(j, k)
                  /\ HandledAt(k) <=> Meet(CurrentAt(i, k), CurrentAt(j, k))
        /\ \A e \in 1..N : entities[e] = CurrentAt(e, Len(log.tested) + 1)

\* A pair that overlapped before the pass has not been handled, because an
\* earlier pair of the pass had moved one of its members out of reach.
C28_Witness ==
    /\ Resolved
    /\ \E k \in 1..Len(log.tested) :
          /\ Overlap(pre[log.tested[k][1]], pre[log.tested[k][2]])
          /\ ~HandledAt(k)
          /\ SeenAt(k).b1 # pre[log.tested[k][1]]

\* A pair that did not overlap before the pass has been handled, because an
\* earlier pair of the pass had pushed one of its members into it.
C28_WitnessPushedIn ==
    /\ Resolved
    /\ \E k \in 1..Len(log.tested) :
          /\ ~Meet(pre[log.tested[k][1]], pre[log.tested[k][2]])
          /\ HandledAt(k)
          /\ SeenAt(k).b1 # pre[log.tested[k][1]]

--------------------------------------------------------------------------
\* C29: a non-degenerate handled pair of two entities that both have
\* mass <= 0 leaves position and velocity of both as they were.
C29_ImmovablePairUntouched ==
    Resolved =>
        \A h \in HandledPairs :
            (NonDegenerate(h) /\ ~Massive(h.b1) /\ ~Massive(h.b2)) =>
                SameMotion(h.a1, h.b1) /\ SameMotion(h.a2, h.b2)

\* A pass has handled an overlapping pair of moving entities of mass 0 and
\* mass -1, and both still overlap as before.
C29_Witness ==
    /\ Resolved
    /\ \E h \in HandledPairs :
          /\ NonDegenerate(h) /\ ~Massive(h.b1) /\ ~Massive(h.b2)
          /\ h.b1.mass # h.b2.mass
          /\ RLt(DSq(h), RadiusSumSq(h))
          /\ (h.b1.vx # Zero \/ h.b1.vy # Zero)
          /\ SameMotion(h.a1, h.b1) /\ SameMotion(h.a2, h.b2)
          /\ entities[h.i] = pre[h.i] /\ entities[h.j] = pre[h.j]

--------------------------------------------------------------------------
\* The branch from_matrix takes for the matrix m (m[c + 1] is m.data[c]).
FromMatrixBranch(m) ==
    IF SGt(SAdd(SAdd(m[1], m[6]), m[11]), SZero) THEN "trace"
    ELSE IF SGt(m[1], m[6]) /\ SGt(m[1], m[11]) THEN "m00"
    ELSE IF SGt(m[6], m[11]) THEN "m11"
    ELSE "m22"

\* C30: for the unit quaternion q held and every vector v,
\* q.to_rotation_matrix().transform_vector3(v) is q.rotate_vector3(v), and
\* from_matrix(q.to_rotation_matrix()) is q or -q, whichever branch
\* from_matrix takes.
C30_MatrixAndQuaternionAgree ==
    IsUnit(value) =>
        \A m \in { to_rotation_matrix(value) } :
            /\ \A v \in Vectors :
                  \A byMatrix \in { transform_vector3(m, v) } :
                  \A byQuaternion \in { rotate_vector3(value, v) } :
                      (NumVector3(byMatrix) /\ NumVector3(byQuaternion)) =>
                          byMatrix = byQuaternion
            /\ \A back \in { from_matrix(m) } :
                  (NumMatrix(m) /\ NumQuaternion(back)) =>
                      back \in { value, quat_scale(value, SI(-1)) }

\* from_matrix has taken the given branch on the matrix of a unit quaternion
\* with no component 0 and has returned that quaternion or its negation.
FromMatrixTook(branch) ==
    /\ result.op = "from_matrix"
    /\ IsUnit(value)
    /\ result.arg = to_rotation_matrix(value)
    /\ FromMatrixBranch(result.arg) = branch
    /\ result.out \in { value, quat_scale(value, SI(-1)) }

\* The branch "m00 largest", with -q returned.
C30_Witness ==
    /\ FromMatrixTook("m00")
    /\ result.out # value
    /\ \E v \in Vectors :
          /\ NumVector3(rotate_vector3(value, v))
          /\ rotate_vector3(value, v) # v
          /\ transform_vector3(result.arg, v) = rotate_vector3(value, v)

C30_WitnessTrace == FromMatrixTook("trace") /\ value.x # SZero
C30_WitnessM11 == FromMatrixTook("m11") /\ value.x # SZero
C30_WitnessM22 == FromMatrixTook("m22") /\ value.x # SZero

====
